---------------------------- MODULE Spec2Model ----------------------------
(***************************************************************************)
(* Model of lua-template: the associative array (src/src/table.c) and the  *)
(* template compiler and interpreter (src/src/template.c).                  *)
(*                                                                          *)
(* Conventions                                                              *)
(*   - a C string is the sequence of its bytes (1..255) without the         *)
(*     terminating NUL; reading one past the end yields 0 (see At);         *)
(*   - a NULL char pointer is written NullStr, a NULL value pointer 0;      *)
(*   - a uint64_t hash is the tuple of its four 16-bit limbs, least         *)
(*     significant first, so that the arithmetic stays exact;               *)
(*   - a size_t that the code may decrement below zero (table count) is     *)
(*     written in two's complement: -1 stands for 2^64 - 1.                 *)
(***************************************************************************)
EXTENDS Integers, Sequences, FiniteSets, TLC

VARIABLES
    t,        \* the table_t under test (table.h:19-27) with its entries
    shadow,   \* reference map: canonical key -> last value set, or absent
    ret,      \* result of the last table_set: return value, or no return (hang)
    ub,       \* TRUE once the table code has executed undefined behaviour
    fails,    \* number of allocation failures injected so far
    resolver,     \* what the resolver returns for each template name
    templates,    \* the registry of compiled templates: name -> template_t
    registry,     \* the Lua registry: expression reference -> closure
    ctx,          \* the binding contexts: identity -> fields
    L,            \* the Lua stack of the running template.render call
    frames,       \* the activations of template_render_template
    out,          \* the bytes written to the stream
    pc,           \* "idle", "running", "done" or "error"
    err,          \* the error the last render ended with
    calls,        \* the arguments of the iterator calls of the render
    renders,      \* number of template.render calls so far
    resolved,     \* the names the resolver was called with, in order
    room,         \* bytes the stream accepts before a write fails, -1: all
    char_signed   \* the build: plain char is signed

tvars == <<t, shadow, ret, ub, fails>>

rvars == <<resolver, templates, registry, ctx, L, frames, out, pc, err, calls, renders,
           resolved, room, char_signed>>

vars == <<tvars, rvars>>

-----------------------------------------------------------------------------
(* Bounds *)

MaxVal == 1           \* values are the non-NULL pointers 1..MaxVal
MaxCreateLoad == 1    \* table_create is called with load 0..MaxCreateLoad
MaxUnderflow == 1     \* removals are offered while count > -MaxUnderflow
MaxFail == 1          \* allocation failures injected in one run

-----------------------------------------------------------------------------
(* Bytes and C strings *)

NullStr == <<0>>

At(s, i) == IF i >= 1 /\ i <= Len(s) THEN s[i] ELSE 0

tolower(c) == IF c >= 65 /\ c <= 90 THEN c + 32 ELSE c

RECURSIVE LowerStr(_)
LowerStr(s) == IF s = <<>> THEN <<>> ELSE <<tolower(Head(s))>> \o LowerStr(Tail(s))

strcmp(a, b) == IF a = b THEN 0 ELSE 1

strcasecmp(a, b) == IF LowerStr(a) = LowerStr(b) THEN 0 ELSE 1

\* the bit of weight w of a ^ b
XorBit(a, b, w) == ((((a \div w) % 2) + ((b \div w) % 2)) % 2) * w

Xor(a, b) ==
    XorBit(a, b, 1) + XorBit(a, b, 2) + XorBit(a, b, 4) + XorBit(a, b, 8)
        + XorBit(a, b, 16) + XorBit(a, b, 32) + XorBit(a, b, 64) + XorBit(a, b, 128)

-----------------------------------------------------------------------------
(* 64-bit hash arithmetic on 16-bit limbs *)

Limb == 65536

HashZero == <<0, 0, 0, 0>>

FnvOffset == <<8997, 33826, 40164, 52210>>   \* 0xCBF29CE484222325

\* x * 435 mod 2^64 (435 = 0x1B3, the low part of the FNV prime)
HMulLow(x) ==
    LET p0 == x[1] * 435
        p1 == x[2] * 435 + p0 \div Limb
        p2 == x[3] * 435 + p1 \div Limb
        p3 == x[4] * 435 + p2 \div Limb
    IN  <<p0 % Limb, p1 % Limb, p2 % Limb, p3 % Limb>>

\* x * 2^40 mod 2^64
HShl40(x) == <<0, 0, (x[1] * 256) % Limb, (x[2] * 256 + x[1] \div 256) % Limb>>

HAdd(x, y) ==
    LET s0 == x[1] + y[1]
        s1 == x[2] + y[2] + s0 \div Limb
        s2 == x[3] + y[3] + s1 \div Limb
        s3 == x[4] + y[4] + s2 \div Limb
    IN  <<s0 % Limb, s1 % Limb, s2 % Limb, s3 % Limb>>

\* hash *= 1099511628211 (= 2^40 + 435)
HMulPrime(x) == HAdd(HShl40(x), HMulLow(x))

\* hash ^= byte
HXorByte(x, b) == <<(x[1] \div 256) * 256 + Xor(x[1] % 256, b), x[2], x[3], x[4]>>

\* hash % m for a small m
HMod(x, m) == ((((((x[4] % m) * Limb + x[3]) % m) * Limb + x[2]) % m) * Limb + x[1]) % m

\* the values of a uint64_t
HashValues == [1..4 -> 0..(Limb - 1)]

\* one round of the loop of table_hash: hash ^= byte; hash *= prime (a
\* function, whose argument is a value: the hash of the rounds before)
FnvRound == [hash \in HashValues, b \in 0..255 |-> HMulPrime(HXorByte(hash, b))]

RECURSIVE FnvFrom(_, _, _, _)
FnvFrom(key, p, ci, hash) ==
    IF p = 0 THEN hash
    ELSE FnvFrom(key, p - 1, ci, FnvRound[hash, IF ci THEN tolower(key[p]) ELSE key[p]])

\* table_hash: FNV-1a over the key bytes, last byte first
fnv1a(ci, key) == FnvFrom(key, Len(key), ci, FnvOffset)

-----------------------------------------------------------------------------
(* Keys and values the table is driven with *)

Keys == {<<97>>, <<98>>, <<99>>, <<100>>}     \* "a", "b", "c", "d"

Vals == 1..MaxVal

\* keys that collide in a table of 11 slots: "c", "f", "j", "s", "u", "w", "x"
ChainKeys == {<<99>>, <<102>>, <<106>>, <<115>>, <<117>>, <<119>>, <<120>>}

\* the attribute names of the template elements: cond, in, names,
\* expressions, filename
AttrKeys ==
    {<<99, 111, 110, 100>>, <<105, 110>>, <<110, 97, 109, 101, 115>>,
     <<101, 120, 112, 114, 101, 115, 115, 105, 111, 110, 115>>,
     <<102, 105, 108, 101, 110, 97, 109, 101>>}

HashedKeys == Keys \cup ChainKeys \cup AttrKeys

\* table_hash of every key of the model, computed once
KeyHash == [ci \in BOOLEAN |-> [key \in HashedKeys |-> fnv1a(ci, key)]]

table_hash(tb, key) == IF key \in HashedKeys THEN KeyHash[tb.ci][key] ELSE fnv1a(tb.ci, key)

-----------------------------------------------------------------------------
(* Associative array: sizes *)

SizeMax == 2147483647     \* stands for (size_t)-1

\* the first entries of table_sizes[]
table_sizes == <<3, 5, 7, 11, 13, 17, 23, 29>>

table_sizes_n == Len(table_sizes)

\* binary search of table_size; indices are 0-based as in the code
RECURSIVE table_size_search(_, _, _)
table_size_search(size, lower, upper) ==
    IF lower <= upper
    THEN LET mid == (lower + upper) \div 2
         IN  IF table_sizes[mid + 1] < size
             THEN table_size_search(size, mid + 1, upper)
             ELSE table_size_search(size, lower, mid - 1)
    ELSE lower

table_size(size) ==
    LET lower == table_size_search(size, 0, table_sizes_n - 1)
    IN  IF lower >= table_sizes_n THEN SizeMax ELSE table_sizes[lower + 1]

\* a variant of table_load that takes seven eighths of alloc in one division
table_load_floor(alloc) == (alloc * 7) \div 8

table_load(alloc) == (alloc \div 2) + (alloc \div 4) + (alloc \div 8)

-----------------------------------------------------------------------------
(* Associative array: entries *)

TES_UNUSED == "unused"
TES_SET == "set"
TES_DELETED == "deleted"

\* a zeroed table_entry_t (calloc, memset); kfreed and vfreed are bookkeeping
\* of the heap: the key resp. value pointer has been passed to free()
EntryZero == [key |-> NullStr, value |-> 0, hash |-> HashZero, state |-> TES_UNUSED,
              kfreed |-> FALSE, vfreed |-> FALSE]

Slots(tb) == 0..(tb.alloc - 1)

NumSet(tb) == Cardinality({i \in Slots(tb) : tb.entries[i].state = TES_SET})

table_create(load) ==
    LET alloc == table_size(load + (load \div 7) + 3)
    IN  [alloc |-> alloc, load |-> table_load(alloc), count |-> 0,
         entries |-> [i \in 0..(alloc - 1) |-> EntryZero],
         dup |-> FALSE, free |-> FALSE, ci |-> FALSE]

\* the key pointer of e cannot be read: it was freed, or is NULL
Dangling(e) == e.kfreed \/ e.key = NullStr

\* the comparison of table_find; reading a dangling key is undefined, `stale'
\* is the outcome (TRUE: the bytes read happen to equal the key)
KeyMatches(tb, e, key, hash, stale) ==
    /\ e.hash = hash
    /\ IF Dangling(e) THEN stale
       ELSE (IF tb.ci THEN strcasecmp(e.key, key) ELSE strcmp(e.key, key)) = 0

RECURSIVE table_find_loop(_, _, _, _, _, _, _)
table_find_loop(tb, key, hash, stale, r, q, h) ==
    IF tb.entries[h].state = TES_UNUSED THEN -1
    ELSE IF KeyMatches(tb, tb.entries[h], key, hash, stale) THEN h
    ELSE IF (h + q) % tb.alloc = r THEN -1
    ELSE table_find_loop(tb, key, hash, stale, r, q, (h + q) % tb.alloc)

\* table_find: the slot found, -1 for NULL
table_find(tb, key, hash, stale) ==
    table_find_loop(tb, key, hash, stale, HMod(hash, tb.alloc),
                    HMod(hash, tb.alloc - 2) + 1, HMod(hash, tb.alloc))

\* table_find dereferences a dangling key pointer on its way: it compares
\* keys in the slots before the one it returns (and in that one)
RECURSIVE FindReadsDanglingFrom(_, _, _, _, _, _, _)
FindReadsDanglingFrom(tb, key, hash, stale, r, q, h) ==
    IF tb.entries[h].state = TES_UNUSED THEN FALSE
    ELSE IF tb.entries[h].hash = hash /\ Dangling(tb.entries[h]) THEN TRUE
    ELSE IF KeyMatches(tb, tb.entries[h], key, hash, stale) THEN FALSE
    ELSE IF (h + q) % tb.alloc = r THEN FALSE
    ELSE FindReadsDanglingFrom(tb, key, hash, stale, r, q, (h + q) % tb.alloc)

FindReadsDangling(tb, key, hash, stale) ==
    FindReadsDanglingFrom(tb, key, hash, stale, HMod(hash, tb.alloc),
                          HMod(hash, tb.alloc - 2) + 1, HMod(hash, tb.alloc))

GetValue(tb, entry) == IF entry = -1 THEN 0 ELSE tb.entries[entry].value

table_get(tb, key, stale) == GetValue(tb, table_find(tb, key, table_hash(tb, key), stale))

-----------------------------------------------------------------------------
(* Associative array: insertion (Brent's method)                           *)
(* An operator that needs an intermediate result several times takes it as *)
(* a parameter of a continuation operator (table_insert -> InsertPlace ->   *)
(* InsertMove), one operator per stretch of the C function.                 *)

\* first walk of table_insert: the first slot of the chain that is not set.
\* After alloc steps the walk is back at its start, so a walk that has not
\* ended by then never ends (hang).
RECURSIVE InsertWorst(_, _, _, _, _)
InsertWorst(tb, h, q, len_worst, steps) ==
    IF tb.entries[h].state = TES_SET
    THEN IF steps >= tb.alloc
         THEN [hang |-> TRUE, h |-> h, len_worst |-> len_worst]
         ELSE InsertWorst(tb, (h + q) % tb.alloc, q, len_worst + 1, steps + 1)
    ELSE [hang |-> FALSE, h |-> h, len_worst |-> len_worst]

\* a variant of the inner loop that follows the chain one slot further
RECURSIVE InsertMoveScan_late(_, _, _, _, _, _)
InsertMoveScan_late(tb, q_move, h_move, len, len_move, len_worst) ==
    IF tb.entries[h_move].state # TES_SET
    THEN [found |-> TRUE, h_move |-> h_move, len_move |-> len_move]
    ELSE IF len + len_move >= len_worst
         THEN [found |-> FALSE, h_move |-> h_move, len_move |-> len_move]
         ELSE InsertMoveScan_late(tb, q_move, (h_move + q_move) % tb.alloc, len,
                                  len_move + 1, len_worst)

\* inner loop of the second walk: follow the occupying entry's own chain
RECURSIVE InsertMoveScan(_, _, _, _, _, _)
InsertMoveScan(tb, q_move, h_move, len, len_move, len_worst) ==
    IF tb.entries[h_move].state # TES_SET
    THEN [found |-> TRUE, h_move |-> h_move, len_move |-> len_move]
    ELSE IF len + len_move >= len_worst - 1
         THEN [found |-> FALSE, h_move |-> h_move, len_move |-> len_move]
         ELSE InsertMoveScan(tb, q_move, (h_move + q_move) % tb.alloc, len,
                             len_move + 1, len_worst)

\* the state of the second walk after the inner loop returned m at slot h
ScanRecord(sc, h, len, m) ==
    IF m.found
    THEN [h |-> h, len |-> len, old |-> h, new |-> m.h_move,
          len_entry_move |-> m.len_move,
          cands |-> Append(sc.cands, [old |-> h, new |-> m.h_move, len |-> len,
                                      len_move |-> m.len_move])]
    ELSE [sc EXCEPT !.h = h, !.len = len]

\* do-while loop of the second walk; sc carries entry_move_old (old),
\* entry_move_new (new), len_entry_move and the list of candidates found
RECURSIVE InsertScan(_, _, _, _, _)
InsertScanNext(tb, q, len_worst, sc) ==
    IF sc.len + 1 < len_worst - 1 /\ sc.len + 1 < sc.len_entry_move
    THEN InsertScan(tb, (sc.h + q) % tb.alloc, q, len_worst, [sc EXCEPT !.len = sc.len + 1])
    ELSE [sc EXCEPT !.h = (sc.h + q) % tb.alloc, !.len = sc.len + 1]

InsertScanAt(tb, h, q, len_worst, sc, q_move) ==
    InsertScanNext(tb, q, len_worst,
        ScanRecord(sc, h, sc.len,
            InsertMoveScan(tb, q_move, (h + q_move) % tb.alloc, sc.len, 1, len_worst)))

InsertScan(tb, h, q, len_worst, sc) ==
    InsertScanAt(tb, h, q, len_worst, sc, HMod(tb.entries[h].hash, tb.alloc - 2) + 1)

NoMove == [h |-> -1, len |-> 1, old |-> -1, new |-> -1, len_entry_move |-> SizeMax,
           cands |-> <<>>]

\* table_insert with a relocation that copies key, hash and state of the
\* entry, not its value
InsertMove_novalue(tb, q, w, sc) ==
    IF sc.old # -1
    THEN [hang |-> FALSE,
          t |-> [tb EXCEPT !.entries[sc.new] = [tb.entries[sc.old] EXCEPT !.value = 0]],
          entry |-> sc.old, len_worst |-> w.len_worst, scan |-> sc]
    ELSE [hang |-> FALSE, t |-> tb, entry |-> (sc.h + q) % tb.alloc,
          len_worst |-> w.len_worst, scan |-> sc]

\* table_insert with a last step that goes one slot too far
InsertMove_far(tb, q, w, sc) ==
    IF sc.old # -1
    THEN [hang |-> FALSE,
          t |-> [tb EXCEPT !.entries[sc.new] = tb.entries[sc.old]],
          entry |-> sc.old, len_worst |-> w.len_worst, scan |-> sc]
    ELSE [hang |-> FALSE, t |-> tb, entry |-> (sc.h + q + q) % tb.alloc,
          len_worst |-> w.len_worst, scan |-> sc]

\* end of table_insert: relocate and return the vacated slot, or return the
\* slot the first walk stopped at
InsertMove(tb, q, w, sc) ==
    IF sc.old # -1
    THEN [hang |-> FALSE,
          t |-> [tb EXCEPT !.entries[sc.new] = tb.entries[sc.old]],
          entry |-> sc.old, len_worst |-> w.len_worst, scan |-> sc]
    ELSE [hang |-> FALSE, t |-> tb, entry |-> (sc.h + q) % tb.alloc,
          len_worst |-> w.len_worst, scan |-> sc]

InsertPlace(tb, h0, q, w) ==
    IF w.hang
    THEN [hang |-> TRUE, t |-> tb, entry |-> -1, len_worst |-> w.len_worst,
          scan |-> NoMove]
    ELSE IF w.len_worst <= 2
    THEN [hang |-> FALSE, t |-> tb, entry |-> w.h, len_worst |-> w.len_worst,
          scan |-> NoMove]
    ELSE InsertMove(tb, q, w, InsertScan(tb, h0, q, w.len_worst, NoMove))

InsertFrom(tb, h0, q) == InsertPlace(tb, h0, q, InsertWorst(tb, h0, q, 1, 0))

\* table_insert: the table after a possible relocation and the slot returned
table_insert(tb, hash) == InsertFrom(tb, HMod(hash, tb.alloc), HMod(hash, tb.alloc - 2) + 1)

\* reinsertion loop of table_rehash over the old entries i..n-1
RECURSIVE RehashReinsert(_, _, _, _)
RehashStore(ins, entries, i, n) ==
    RehashReinsert([ins.t EXCEPT !.entries[ins.entry] = entries[i]], entries, i + 1, n)

RehashReinsert(tb, entries, i, n) ==
    IF i >= n THEN tb
    ELSE IF entries[i].state = TES_SET
         THEN RehashStore(table_insert(tb, entries[i].hash), entries, i, n)
         ELSE RehashReinsert(tb, entries, i + 1, n)

RehashInto(tb, alloc_new, calloc_ok) ==
    IF alloc_new = SizeMax \/ ~calloc_ok
    THEN [res |-> -1, t |-> tb]
    ELSE [res |-> 0,
          t |-> RehashReinsert(
                    [tb EXCEPT !.alloc = alloc_new,
                               !.load = table_load(alloc_new),
                               !.entries = [i \in 0..(alloc_new - 1) |-> EntryZero]],
                    tb.entries, 0, tb.alloc)]

\* a variant of table_rehash that stores the new load threshold before it
\* allocates
table_rehash_early(tb, alloc, calloc_ok) ==
    IF table_size(alloc) # SizeMax /\ ~calloc_ok
    THEN [res |-> -1, t |-> [tb EXCEPT !.load = table_load(table_size(alloc))]]
    ELSE RehashInto(tb, table_size(alloc), calloc_ok)

\* table_rehash; calloc_ok is the outcome of the allocation
table_rehash(tb, alloc, calloc_ok) == RehashInto(tb, table_size(alloc), calloc_ok)

\* table_remove of the entry in slot e; ub: a pointer is freed a second time
RemoveEntry(tb, e, entry) ==
    [ub |-> (tb.dup /\ entry.kfreed) \/ (tb.free /\ entry.vfreed),
     t |-> [tb EXCEPT !.count = tb.count - 1,
                      !.entries[e] =
                          [entry EXCEPT !.state = TES_DELETED,
                                        !.kfreed = entry.kfreed \/ (tb.dup /\ entry.key # NullStr),
                                        !.vfreed = entry.vfreed \/ (tb.free /\ entry.value # 0)]]]

table_remove(tb, e) == RemoveEntry(tb, e, tb.entries[e])

\* table_set, new entry: the part after table_insert returned ins
SetStore(tb, key, value, hash, ubfind, ins, strdup_ok) ==
    IF ins.hang
    THEN [res |-> 0, hang |-> TRUE, ub |-> ubfind, t |-> tb]
    ELSE IF tb.dup /\ ~strdup_ok
    THEN [res |-> -1, hang |-> FALSE, ub |-> ubfind,
          t |-> [ins.t EXCEPT !.entries[ins.entry].key = NullStr,
                              !.entries[ins.entry].kfreed = FALSE]]
    ELSE [res |-> 0, hang |-> FALSE, ub |-> ubfind,
          t |-> [ins.t EXCEPT !.count = ins.t.count + 1,
                              !.entries[ins.entry] =
                                  [key |-> key, value |-> value, hash |-> hash,
                                   state |-> TES_SET, kfreed |-> FALSE, vfreed |-> FALSE]]]

\* table_set, new entry: the part after the rehash (if any) returned rh
SetInsert(key, value, hash, ubfind, rh, strdup_ok) ==
    IF rh.res # 0
    THEN [res |-> -1, hang |-> FALSE, ub |-> ubfind, t |-> rh.t]
    ELSE SetStore(rh.t, key, value, hash, ubfind, table_insert(rh.t, hash), strdup_ok)

\* table_set, update of the entry e found in slot `entry'
SetUpdate(tb, value, ubfind, entry, e) ==
    [res |-> 0, hang |-> FALSE,
     ub |-> ubfind \/ (tb.free /\ value # e.value /\ e.vfreed),
     t |-> [tb EXCEPT !.entries[entry] = [e EXCEPT !.value = value, !.vfreed = FALSE]]]

SetRemove(ubfind, rm) == [res |-> 0, hang |-> FALSE, ub |-> ubfind \/ rm.ub, t |-> rm.t]

\* table_set after table_find returned `entry' (-1 for NULL)
SetFound(tb, key, value, hash, entry, ubfind, calloc_ok, strdup_ok) ==
    IF value # 0
    THEN IF entry # -1
         THEN SetUpdate(tb, value, ubfind, entry, tb.entries[entry])
         ELSE SetInsert(key, value, hash, ubfind,
                        IF tb.count = tb.load
                        THEN table_rehash(tb, tb.alloc + 1, calloc_ok)
                        ELSE [res |-> 0, t |-> tb],
                        strdup_ok)
    ELSE IF entry # -1
         THEN SetRemove(ubfind, table_remove(tb, entry))
         ELSE [res |-> 0, hang |-> FALSE, ub |-> ubfind, t |-> tb]

SetHashed(tb, key, value, hash, stale, calloc_ok, strdup_ok) ==
    SetFound(tb, key, value, hash, table_find(tb, key, hash, stale),
             FindReadsDangling(tb, key, hash, stale), calloc_ok, strdup_ok)

\* table_set; stale, calloc_ok and strdup_ok are the outcomes of reading a
\* dangling key and of the two allocations
table_set(tb, key, value, stale, calloc_ok, strdup_ok) ==
    SetHashed(tb, key, value, table_hash(tb, key), stale, calloc_ok, strdup_ok)

\* loop of table_clear over the slots i..alloc-1
RECURSIVE RemoveAllSet(_, _)
RemoveAllNext(r, rm, i) == RemoveAllSet([ub |-> r.ub \/ rm.ub, t |-> rm.t], i + 1)

RemoveAllSet(r, i) ==
    IF i >= r.t.alloc THEN r
    ELSE IF r.t.entries[i].state = TES_SET
         THEN RemoveAllNext(r, table_remove(r.t, i), i)
         ELSE RemoveAllSet(r, i + 1)

ClearEntries(r) == [ub |-> r.ub, t |-> [r.t EXCEPT !.entries = [i \in Slots(r.t) |-> EntryZero]]]

table_clear(tb) ==
    ClearEntries(IF tb.dup \/ tb.free
                 THEN RemoveAllSet([ub |-> FALSE, t |-> tb], 0)
                 ELSE [ub |-> FALSE, t |-> [tb EXCEPT !.count = 0]])

table_set_dup(tb, dup) ==
    IF tb.count # 0 THEN [res |-> -1, t |-> tb]
    ELSE [res |-> 0, t |-> [tb EXCEPT !.dup = dup]]

-----------------------------------------------------------------------------
(* Characters and buffers (template.c works on the bytes of p->str)         *)

\* <ctype.h> in the "C" locale, for an argument in 0..255
isspace(c) == c = 32 \/ (c >= 9 /\ c <= 13)

isdigit(c) == c >= 48 /\ c <= 57

isalpha(c) == (c >= 65 /\ c <= 90) \/ (c >= 97 /\ c <= 122)

isalnum(c) == isalpha(c) \/ isdigit(c)

\* strlen of the C string that starts at position pos of the buffer
RECURSIVE strlen(_, _)
strlen(str, pos) == IF At(str, pos) = 0 THEN 0 ELSE 1 + strlen(str, pos + 1)

\* the C string that starts at position pos of the buffer
CStr(str, pos) == SubSeq(str, pos, pos + strlen(str, pos) - 1)

\* *pos = b; the byte behind the last one is the terminating NUL of the buffer
Poke(str, pos, b) == IF pos >= 1 /\ pos <= Len(str) THEN [str EXCEPT ![pos] = b] ELSE str

\* p->pos advanced over isspace bytes
RECURSIVE SkipSpace(_, _)
SkipSpace(str, pos) == IF isspace(At(str, pos)) THEN SkipSpace(str, pos + 1) ELSE pos

-----------------------------------------------------------------------------
(* Lua values. A value is a record [ty, s, n]: ty is the type name, s the   *)
(* bytes of a string (for a table: its list part, item i being the one-byte *)
(* string <<s[i]>>), n the integer of a number, 0/1 of a boolean, or the     *)
(* identity of a table, function or userdata.                               *)

Nil == [ty |-> "nil", s |-> <<>>, n |-> 0]

Bool(b) == [ty |-> "boolean", s |-> <<>>, n |-> IF b THEN 1 ELSE 0]

Num(n) == [ty |-> "number", s |-> <<>>, n |-> n]

Str(s) == [ty |-> "string", s |-> s, n |-> 0]

Tab(items, id) == [ty |-> "table", s |-> items, n |-> id]

Fn(id) == [ty |-> "function", s |-> <<>>, n |-> id]

Udata(name, id) == [ty |-> "userdata", s |-> name, n |-> id]

lua_isnil(v) == v.ty = "nil"

\* a variant of lua_isstring that holds for strings only (C10 must tell it
\* from lua_isstring)
lua_isstring_strict(v) == v.ty = "string"

\* lua_isstring: a string, or a number (which converts to a string)
lua_isstring(v) == v.ty = "string" \/ v.ty = "number"

\* a variant of lua_toboolean with the truth of C, where the number 0 is
\* false (C3 must tell it from lua_toboolean)
lua_toboolean_c(v) == ~(v.ty = "nil" \/ (v.ty = "boolean" /\ v.n = 0) \/ (v.ty = "number" /\ v.n = 0))

lua_toboolean(v) == ~(v.ty = "nil" \/ (v.ty = "boolean" /\ v.n = 0))

\* the bytes of luaL_typename(v)
TypeName ==
    [nil |-> <<110, 105, 108>>,
     boolean |-> <<98, 111, 111, 108, 101, 97, 110>>,
     number |-> <<110, 117, 109, 98, 101, 114>>,
     string |-> <<115, 116, 114, 105, 110, 103>>,
     table |-> <<116, 97, 98, 108, 101>>,
     function |-> <<102, 117, 110, 99, 116, 105, 111, 110>>,
     userdata |-> <<117, 115, 101, 114, 100, 97, 116, 97>>]

luaL_typename(v) == TypeName[v.ty]

\* the decimal digits of n >= 0
RECURSIVE Digits(_)
Digits(n) == IF n < 10 THEN <<48 + n>> ELSE Digits(n \div 10) \o <<48 + (n % 10)>>

\* lua_tostring of an integer number ("%d")
Decimal(n) == IF n < 0 THEN <<45>> \o Digits(-n) ELSE Digits(n)

\* lua_tostring of a value for which lua_isstring holds
lua_tostring(v) == IF v.ty = "number" THEN Decimal(v.n) ELSE v.s

\* lua_pushfstring(L, "(%s)", luaL_typename(L, -1))
ParenTypeName(v) == Str(<<40>> \o luaL_typename(v) \o <<41>>)

\* the value at index idx of the stack: idx > 0 from the bottom, < 0 from the top
StackAt(st, idx) == IF idx > 0 THEN st[idx] ELSE st[Len(st) + 1 + idx]

\* lua_pop(L, n)
Pop(st, n) == SubSeq(st, 1, Len(st) - n)

\* lua_replace(L, idx): pops the top and stores it at idx
Replace(st, idx) ==
    Pop([st EXCEPT ![IF idx > 0 THEN idx ELSE Len(st) + 1 + idx] = st[Len(st)]], 1)

\* a table without fields
EmptyMap == [k \in {} |-> Nil]

\* the binding context is a Lua table: absent names read as nil
GetField(tbl, name) == IF name \in DOMAIN tbl THEN tbl[name] ELSE Nil

\* lua_setfield; storing nil removes the field
SetField(tbl, name, v) ==
    IF lua_isnil(v)
    THEN [k \in (DOMAIN tbl) \ {name} |-> tbl[k]]
    ELSE [k \in (DOMAIN tbl) \cup {name} |-> IF k = name THEN v ELSE tbl[k]]

-----------------------------------------------------------------------------
(* The expression environment (Lua), at its interface. An expression is a   *)
(* comma-separated list of atoms: nil, true, false, a decimal number, a      *)
(* quoted string, the empty table {}, a name (a field of the binding         *)
(* context) or a call                                                        *)
(* name(name). luaL_loadbufferx turns "return " .. exp into the list of its  *)
(* atoms or fails; lua_call evaluates the list in the closure's _ENV.        *)

\* identities of the functions of the model: ipairs, the iterator that
\* ipairs returns, and a function that returns nothing
FnId == [ipairs |-> 1, iter |-> 2, other |-> 3]

Atom(k, s, a, n) == [k |-> k, s |-> s, a |-> a, n |-> n]

LoadFail == [ok |-> FALSE, atom |-> Atom("nil", <<>>, <<>>, 0), next |-> 0]

RECURSIVE NameEnd(_, _)
NameEnd(s, i) == IF isalnum(At(s, i)) \/ At(s, i) = 95 THEN NameEnd(s, i + 1) ELSE i

RECURSIVE DigitsEnd(_, _)
DigitsEnd(s, i) == IF isdigit(At(s, i)) THEN DigitsEnd(s, i + 1) ELSE i

RECURSIVE DecVal(_)
DecVal(d) == IF d = <<>> THEN 0 ELSE 10 * DecVal(SubSeq(d, 1, Len(d) - 1)) + (d[Len(d)] - 48)

\* position of the quote q that closes a string literal, 0 if there is none;
\* a backslash escapes the byte that follows it
RECURSIVE QuoteEnd(_, _, _)
QuoteEnd(s, i, q) ==
    IF At(s, i) = 0 THEN 0
    ELSE IF At(s, i) = q THEN i
    ELSE IF At(s, i) = 92 THEN (IF At(s, i + 1) = 0 THEN 0 ELSE QuoteEnd(s, i + 2, q))
    ELSE QuoteEnd(s, i + 1, q)

\* the bytes of a string literal: \c stands for c
RECURSIVE Unquote(_)
Unquote(s) ==
    IF s = <<>> THEN <<>>
    ELSE IF Head(s) = 92 /\ Len(s) >= 2 THEN <<s[2]>> \o Unquote(SubSeq(s, 3, Len(s)))
    ELSE <<Head(s)>> \o Unquote(Tail(s))

Keyword(word) ==
    IF word = <<110, 105, 108>> THEN "nil"
    ELSE IF word = <<116, 114, 117, 101>> THEN "true"
    ELSE IF word = <<102, 97, 108, 115, 101>> THEN "false"
    ELSE "name"

AtomString(s, i, e) ==
    IF e = 0 THEN LoadFail
    ELSE [ok |-> TRUE, atom |-> Atom("str", Unquote(SubSeq(s, i + 1, e - 1)), <<>>, 0),
          next |-> e + 1]

AtomNumber(s, i, e) ==
    [ok |-> TRUE, atom |-> Atom("num", <<>>, <<>>, DecVal(SubSeq(s, i, e - 1))), next |-> e]

\* name(arg): e is the end of name, ae the end of arg
AtomCall(s, i, e, ae) ==
    IF ae > e + 1 /\ At(s, ae) = 41
    THEN [ok |-> TRUE,
          atom |-> Atom("call", SubSeq(s, i, e - 1), SubSeq(s, e + 1, ae - 1), 0),
          next |-> ae + 1]
    ELSE LoadFail

AtomWord(s, i, e) ==
    IF At(s, e) = 40 THEN AtomCall(s, i, e, NameEnd(s, e + 1))
    ELSE [ok |-> TRUE, atom |-> Atom(Keyword(SubSeq(s, i, e - 1)), SubSeq(s, i, e - 1), <<>>, 0),
          next |-> e]

LuaAtom(s, i) ==
    IF At(s, i) = 34 \/ At(s, i) = 39 THEN AtomString(s, i, QuoteEnd(s, i + 1, At(s, i)))
    ELSE IF At(s, i) = 123 /\ At(s, SkipSpace(s, i + 1)) = 125
    THEN [ok |-> TRUE, atom |-> Atom("table", <<>>, <<>>, 0), next |-> SkipSpace(s, i + 1) + 1]
    ELSE IF isdigit(At(s, i)) THEN AtomNumber(s, i, DigitsEnd(s, i))
    ELSE IF isalpha(At(s, i)) \/ At(s, i) = 95 THEN AtomWord(s, i, NameEnd(s, i))
    ELSE LoadFail

RECURSIVE LuaList(_, _, _)
LuaListNext(s, acc, j) ==
    IF j > Len(s) THEN [ok |-> TRUE, code |-> acc]
    ELSE IF s[j] = 44 THEN LuaList(s, j + 1, acc)
    ELSE [ok |-> FALSE, code |-> <<>>]

LuaListAtom(s, acc, r) ==
    IF r.ok THEN LuaListNext(s, Append(acc, r.atom), SkipSpace(s, r.next))
    ELSE [ok |-> FALSE, code |-> <<>>]

LuaList(s, i, acc) == LuaListAtom(s, acc, LuaAtom(s, SkipSpace(s, i)))

\* luaL_loadbufferx(L, "return " .. exp): [ok, code]; "return" alone is a chunk
luaL_loadbufferx(exp) ==
    IF SkipSpace(exp, 1) > Len(exp) THEN [ok |-> TRUE, code |-> <<>>]
    ELSE LuaList(exp, 1, <<>>)

\* the results of calling function f with arguments args: [ok, vals]
LuaApply(f, args) ==
    IF f.ty # "function" THEN [ok |-> FALSE, vals |-> <<>>]
    ELSE IF f.n = FnId.ipairs
    THEN [ok |-> Len(args) >= 1, vals |-> <<Fn(FnId.iter), args[1], Num(0)>>]
    ELSE IF f.n = FnId.iter
    THEN IF Len(args) < 2 \/ args[1].ty # "table" \/ args[2].ty # "number"
         THEN [ok |-> FALSE, vals |-> <<>>]
         ELSE IF args[2].n + 1 >= 1 /\ args[2].n + 1 <= Len(args[1].s)
         THEN [ok |-> TRUE, vals |-> <<Num(args[2].n + 1), Str(<<args[1].s[args[2].n + 1]>>)>>]
         ELSE [ok |-> TRUE, vals |-> <<Nil>>]
    ELSE [ok |-> TRUE, vals |-> <<>>]

\* the values of one atom in the binding context env; last: the atom ends the
\* list, so that a call contributes all its results
AtomValues(a, env, last) ==
    IF a.k = "nil" THEN [ok |-> TRUE, vals |-> <<Nil>>]
    ELSE IF a.k = "true" THEN [ok |-> TRUE, vals |-> <<Bool(TRUE)>>]
    ELSE IF a.k = "false" THEN [ok |-> TRUE, vals |-> <<Bool(FALSE)>>]
    ELSE IF a.k = "num" THEN [ok |-> TRUE, vals |-> <<Num(a.n)>>]
    ELSE IF a.k = "str" THEN [ok |-> TRUE, vals |-> <<Str(a.s)>>]
    ELSE IF a.k = "name" THEN [ok |-> TRUE, vals |-> <<GetField(env, a.s)>>]
    ELSE IF a.k = "table" THEN [ok |-> TRUE, vals |-> <<Tab(<<>>, 0)>>]
    ELSE IF last THEN LuaApply(GetField(env, a.s), <<GetField(env, a.a)>>)
    ELSE [ok |-> LuaApply(GetField(env, a.s), <<GetField(env, a.a)>>).ok,
          vals |-> <<(LuaApply(GetField(env, a.s), <<GetField(env, a.a)>>).vals
                          \o <<Nil>>)[1]>>]

RECURSIVE LuaEval(_, _, _)
LuaEvalJoin(r, rest) == [ok |-> r.ok /\ rest.ok, vals |-> r.vals \o rest.vals]

LuaEval(code, env, i) ==
    IF i > Len(code) THEN [ok |-> TRUE, vals |-> <<>>]
    ELSE LuaEvalJoin(AtomValues(code[i], env, i = Len(code)), LuaEval(code, env, i + 1))

\* the results of a call adjusted to nret values
Adjust(vals, nret) == [k \in 1..nret |-> IF k <= Len(vals) THEN vals[k] ELSE Nil]

-----------------------------------------------------------------------------
(* Compiler: nodes, blocks and the parser state (template.c:38-115)         *)

TEMPLATE_EOPEN == 1
TEMPLATE_ECLOSE == 2
TEMPLATE_FESC == 255
TEMPLATE_FESCXML == 1
TEMPLATE_FESCURL == 2
TEMPLATE_FESCJS == 3
TEMPLATE_FSUPNIL == 256
TEMPLATE_MAX_DEPTH == 8
LUA_NOREF == -2

\* a node_t; the fields of the variants of its union are kept apart, a field
\* that the variant of the node does not have keeps the value given here
NodeZero == [type |-> "NT_NONE", ref |-> 0, next |-> 0, names |-> <<>>, flags |-> 0,
             raw_str |-> 0, raw_len |-> 0]

\* a block_t
BlockZero == [type |-> "NT_NONE", if_start |-> 0, if_last |-> 0, if_count |-> 0,
              for_start |-> 0]

NoErr == [msg |-> "", n |-> 0]

\* node index k of the code is element k + 1 of the sequence
NodeAt(nodes, k) == nodes[k + 1]

\* the line of template_error: 1 and the line breaks the loop meets before
\* p->pos. It counts every '\r' and skips a '\n' that follows one, so it
\* counts every '\n' that does not follow a '\r'.
LineOf(str, end) ==
    1 + Cardinality({i \in 1..(end - 1) : At(str, i) = 13})
      + Cardinality({i \in 1..(end - 1) : At(str, i) = 10 /\ At(str, i - 1) # 13})

\* template_error: the parse ends with "filename:line: msg"
template_error(p, msg) ==
    IF p.err # NoErr THEN p
    ELSE [p EXCEPT !.err = [msg |-> msg, n |-> LineOf(p.str, p.pos)]]

\* the parser_t after the setup of template_parse, for source str; reg is
\* the registry of expression references, el .. val_end are the locals of
\* template_parse_element
ParserInit(str, reg) ==
    [str |-> str, begin |-> 1, pos |-> 1, element |-> 0, attrs |-> table_create(4),
     nodes |-> <<>>, blocks |-> <<>>, err |-> NoErr, reg |-> reg,
     el |-> 0, el_end |-> 0, key |-> 0, key_end |-> 0, val |-> 0, val_end |-> 0]

template_append_node(p, node) == [p EXCEPT !.nodes = Append(@, node)]

template_append_block(p, block) == [p EXCEPT !.blocks = Append(@, block)]

\* nodes[k] with one field changed (k is the index of the code)
SetNext(nodes, k, target) == [nodes EXCEPT ![k + 1].next = target]

-----------------------------------------------------------------------------
(* Compiler: entities, flags, names, expressions                            *)

\* template_unescape_xml on the C string s: the unescaped bytes
RECURSIVE Unescaped(_, _)
Unescaped(s, r) ==
    IF At(s, r) = 0 THEN <<>>
    ELSE IF At(s, r) = 38 /\ At(s, r + 1) = 113 /\ At(s, r + 2) = 117 /\ At(s, r + 3) = 111
            /\ At(s, r + 4) = 116 /\ At(s, r + 5) = 59
    THEN <<34>> \o Unescaped(s, r + 6)
    ELSE IF At(s, r) = 38 /\ At(s, r + 1) = 108 /\ At(s, r + 2) = 116 /\ At(s, r + 3) = 59
    THEN <<60>> \o Unescaped(s, r + 4)
    ELSE IF At(s, r) = 38 /\ At(s, r + 1) = 103 /\ At(s, r + 2) = 116 /\ At(s, r + 3) = 59
    THEN <<62>> \o Unescaped(s, r + 4)
    ELSE IF At(s, r) = 38 /\ At(s, r + 1) = 97 /\ At(s, r + 2) = 109 /\ At(s, r + 3) = 112
            /\ At(s, r + 4) = 59
    THEN <<38>> \o Unescaped(s, r + 5)
    ELSE <<At(s, r)>> \o Unescaped(s, r + 1)

\* the buffer with bytes w written from position pos on, then a NUL
WriteCStr(str, pos, w) ==
    [i \in 1..Len(str) |->
        IF i >= pos /\ i < pos + Len(w) THEN w[i - pos + 1]
        ELSE IF i = pos + Len(w) THEN 0
        ELSE str[i]]

\* template_unescape_xml(str + pos - 1), in place
template_unescape_xml(str, pos) == WriteCStr(str, pos, Unescaped(CStr(str, pos), 1))

\* a variant of template_parse_flags in which a later escape letter replaces
\* an earlier one
RECURSIVE template_parse_flags_last(_, _, _)
template_parse_flags_last(flags, f, value) ==
    IF At(flags, f) = 0 THEN [err |-> "", value |-> value]
    ELSE IF At(flags, f) = 120
    THEN template_parse_flags_last(flags, f + 1,
             value - (value % (TEMPLATE_FESC + 1)) + TEMPLATE_FESCXML)
    ELSE IF At(flags, f) = 117
    THEN template_parse_flags_last(flags, f + 1,
             value - (value % (TEMPLATE_FESC + 1)) + TEMPLATE_FESCURL)
    ELSE IF At(flags, f) = 106
    THEN template_parse_flags_last(flags, f + 1,
             value - (value % (TEMPLATE_FESC + 1)) + TEMPLATE_FESCJS)
    ELSE IF At(flags, f) = 110
    THEN template_parse_flags_last(flags, f + 1,
             IF value >= TEMPLATE_FSUPNIL THEN value ELSE value + TEMPLATE_FSUPNIL)
    ELSE [err |-> "bad flags: unknown character", value |-> value]

\* template_parse_flags on the C string flags: [err, value]
RECURSIVE template_parse_flags(_, _, _)
template_parse_flags(flags, f, value) ==
    IF At(flags, f) = 0 THEN [err |-> "", value |-> value]
    ELSE IF At(flags, f) = 120
    THEN IF value % (TEMPLATE_FESC + 1) # 0
         THEN [err |-> "bad flags: multiple escacpes", value |-> value]
         ELSE template_parse_flags(flags, f + 1, value + TEMPLATE_FESCXML)
    ELSE IF At(flags, f) = 117
    THEN IF value % (TEMPLATE_FESC + 1) # 0
         THEN [err |-> "bad flags: multiple escacpes", value |-> value]
         ELSE template_parse_flags(flags, f + 1, value + TEMPLATE_FESCURL)
    ELSE IF At(flags, f) = 106
    THEN IF value % (TEMPLATE_FESC + 1) # 0
         THEN [err |-> "bad flags: multiple escacpes", value |-> value]
         ELSE template_parse_flags(flags, f + 1, value + TEMPLATE_FESCJS)
    ELSE IF At(flags, f) = 110
    THEN template_parse_flags(flags, f + 1,
             IF value >= TEMPLATE_FSUPNIL THEN value ELSE value + TEMPLATE_FSUPNIL)
    ELSE [err |-> "bad flags: unknown character", value |-> value]

\* strtok_r(names, "\t ,"): the tokens of the C string names
IsDelim(c) == c = 9 \/ c = 32 \/ c = 44

RECURSIVE Tokens(_, _, _, _)
Tokens(names, i, cur, acc) ==
    IF At(names, i) = 0 THEN (IF cur = <<>> THEN acc ELSE Append(acc, cur))
    ELSE IF IsDelim(names[i])
    THEN Tokens(names, i + 1, <<>>, IF cur = <<>> THEN acc ELSE Append(acc, cur))
    ELSE Tokens(names, i + 1, Append(cur, names[i]), acc)

\* template_parse_names: [err, names]
template_parse_names(names) ==
    IF Tokens(names, 1, <<>>, <<>>) = <<>> THEN [err |-> "empty 'names'", names |-> <<>>]
    ELSE [err |-> "", names |-> Tokens(names, 1, <<>>, <<>>)]

\* luaL_ref: a reference that the registry does not use
RECURSIVE FreeRef(_, _)
FreeRef(reg, r) == IF r \in DOMAIN reg THEN FreeRef(reg, r + 1) ELSE r

luaL_ref(reg) == FreeRef(reg, 1)

\* a compiled chunk: its code and its first upvalue _ENV (0: the globals)
Closure(code) == [code |-> code, upv |-> 0]

\* template_parse_expression, the reference going to node k of p
ExpressionLoaded(p, k, r) ==
    IF ~r.ok THEN template_error(p, "syntax error")
    ELSE [p EXCEPT !.nodes[k + 1].ref = luaL_ref(p.reg),
                   !.reg = [x \in (DOMAIN p.reg) \cup {luaL_ref(p.reg)} |->
                               IF x \in DOMAIN p.reg THEN p.reg[x] ELSE Closure(r.code)]]

template_parse_expression(p, k, exp) ==
    IF p.err # NoErr THEN p ELSE ExpressionLoaded(p, k, luaL_loadbufferx(exp))

-----------------------------------------------------------------------------
(* Compiler: the elements (template_parse_if .. template_parse_include)     *)

AttrName ==
    [cond |-> <<99, 111, 110, 100>>,
     in |-> <<105, 110>>,
     names |-> <<110, 97, 109, 101, 115>>,
     expressions |-> <<101, 120, 112, 114, 101, 115, 115, 105, 111, 110, 115>>,
     filename |-> <<102, 105, 108, 101, 110, 97, 109, 101>>]

ElementName ==
    [if |-> <<105, 102>>,
     for |-> <<102, 111, 114>>,
     set |-> <<115, 101, 116>>,
     else |-> <<101, 108, 115, 101>>,
     elseif |-> <<101, 108, 115, 101, 105, 102>>,
     include |-> <<105, 110, 99, 108, 117, 100, 101>>]

IsOpen(p) == p.element % 2 = TEMPLATE_EOPEN

IsClose(p) == p.element \div TEMPLATE_ECLOSE = 1

Last(list) == list[Len(list)]

\* list_pop(p->blocks)
PopBlock(p) == [p EXCEPT !.blocks = IF @ = <<>> THEN @ ELSE SubSeq(@, 1, Len(@) - 1)]

\* node->..._next = target for node k, once the statements before have run
WithNext(p, k, target) ==
    IF p.err # NoErr THEN p ELSE [p EXCEPT !.nodes = SetNext(@, k, target)]

\* the expression of attribute value val (a position of the buffer, 0: NULL)
AttrExpression(p, k, val, missing) ==
    IF val = 0 THEN template_error(p, missing)
    ELSE template_parse_expression(p, k, CStr(p.str, val))

\* node->..._names = template_parse_names(p, names) for node k
NamesParsed(p, k, r) ==
    IF r.err # "" THEN template_error(p, r.err)
    ELSE [p EXCEPT !.nodes[k + 1].names = r.names]

AttrNames(p, k, val) ==
    IF p.err # NoErr THEN p
    ELSE IF val = 0 THEN template_error(p, "missing attribute 'names'")
    ELSE NamesParsed(p, k, template_parse_names(CStr(p.str, val)))

\* template_parse_if, opening part: the block and the If node
IfOpen(p, k) ==
    WithNext(
        AttrExpression(
            template_append_node(
                template_append_block(p, [BlockZero EXCEPT !.type = "NT_IF", !.if_start = k,
                                                            !.if_last = k, !.if_count = 0]),
                [NodeZero EXCEPT !.type = "NT_IF", !.ref = LUA_NOREF]),
            k, table_get(p.attrs, AttrName.cond, FALSE), "missing attribute 'cond'"),
        k, -1)

\* a variant of the walk that patches no Jump (C13 must tell it from
\* IfPatchJumps)
IfPatchJumps_none(nodes, node, if_count, count) == nodes

\* the walk over the chain at its close: the Jump before each branch but
\* the first gets the index count behind the chain
RECURSIVE IfPatchJumps(_, _, _, _)
IfPatchJumps(nodes, node, if_count, count) ==
    IF if_count = 0 THEN nodes
    ELSE IfPatchJumps(SetNext(nodes, NodeAt(nodes, node).next - 1, count),
                      NodeAt(nodes, node).next, if_count - 1, count)

IfClosed(p, block) ==
    [p EXCEPT !.nodes =
        IfPatchJumps(IF block.if_last # -1 THEN SetNext(@, block.if_last, Len(@)) ELSE @,
                     block.if_start, block.if_count, Len(@))]

IfClose(p) ==
    IF p.blocks = <<>> \/ Last(p.blocks).type # "NT_IF"
    THEN template_error(PopBlock(p), "no 'if' to close")
    ELSE IfClosed(PopBlock(p), Last(p.blocks))

template_parse_if_open(p) == IF IsOpen(p) THEN IfOpen(p, Len(p.nodes)) ELSE p

template_parse_if_close(p) == IF p.err = NoErr /\ IsClose(p) THEN IfClose(p) ELSE p

template_parse_if(p) == template_parse_if_close(template_parse_if_open(p))

\* template_parse_elseif: a Jump that ends the branch before, then the If
\* node k of the new branch
ElseifOpen(p, k) ==
    WithNext(
        AttrExpression(
            [p EXCEPT !.nodes = Append(Append(SetNext(@, Last(p.blocks).if_last, k),
                                              [NodeZero EXCEPT !.type = "NT_JUMP", !.next = -1]),
                                       [NodeZero EXCEPT !.type = "NT_IF", !.ref = LUA_NOREF]),
                      !.blocks[Len(p.blocks)].if_count = @ + 1,
                      !.blocks[Len(p.blocks)].if_last = k],
            k, table_get(p.attrs, AttrName.cond, FALSE), "missing attribute 'cond'"),
        k, -1)

\* a variant of template_parse_elseif that does not test the type of the
\* innermost open block
template_parse_elseif_anyblock(p) ==
    IF ~IsOpen(p) THEN p
    ELSE IF p.blocks = <<>> THEN template_error(p, "no 'if' to continue")
    ELSE IF Last(p.blocks).if_last = -1
    THEN template_error(p, "no 'if' to continue")
    ELSE ElseifOpen(p, Len(p.nodes) + 1)

template_parse_elseif(p) ==
    IF ~IsOpen(p) THEN p
    ELSE IF p.blocks = <<>> THEN template_error(p, "no 'if' to continue")
    ELSE IF Last(p.blocks).type # "NT_IF" \/ Last(p.blocks).if_last = -1
    THEN template_error(p, "no 'if' to continue")
    ELSE ElseifOpen(p, Len(p.nodes) + 1)

\* template_parse_else: a Jump that ends the branch before; count is the
\* index behind it
ElseOpen(p, count) ==
    [p EXCEPT !.nodes = Append(SetNext(@, Last(p.blocks).if_last, count),
                               [NodeZero EXCEPT !.type = "NT_JUMP", !.next = -1]),
              !.blocks[Len(p.blocks)].if_count = @ + 1,
              !.blocks[Len(p.blocks)].if_last = -1]

template_parse_else(p) ==
    IF ~IsOpen(p) THEN p
    ELSE IF p.blocks = <<>> THEN template_error(p, "no 'if' to continue")
    ELSE IF Last(p.blocks).type # "NT_IF" \/ Last(p.blocks).if_last = -1
    THEN template_error(p, "no 'if' to continue")
    ELSE ElseOpen(p, Len(p.nodes) + 1)

\* template_parse_for, opening part: ForInit node k, then the block and the
\* ForNext node k + 1
ForNextOpen(p, k) ==
    IF p.err # NoErr THEN p
    ELSE WithNext(
             AttrNames(
                 template_append_node(
                     template_append_block(p, [BlockZero EXCEPT !.type = "NT_FOR_NEXT",
                                                                 !.for_start = k]),
                     [NodeZero EXCEPT !.type = "NT_FOR_NEXT"]),
                 k, table_get(p.attrs, AttrName.names, FALSE)),
             k, -1)

ForOpen(p, k) ==
    ForNextOpen(
        AttrExpression(
            template_append_node(p, [NodeZero EXCEPT !.type = "NT_FOR_INIT", !.ref = LUA_NOREF]),
            k, table_get(p.attrs, AttrName.in, FALSE), "missing attribute 'in'"),
        k + 1)

\* closing part: the Jump back to the ForNext node, whose end target is the
\* index behind the Jump
ForClosed(p, block) ==
    [p EXCEPT !.nodes = SetNext(Append(@, [NodeZero EXCEPT !.type = "NT_JUMP",
                                                            !.next = block.for_start]),
                                block.for_start, Len(@) + 1)]

\* a variant of ForClose whose Jump goes back to the ForInit node in front of
\* the ForNext node
ForClose_init(p) ==
    IF p.blocks = <<>> \/ Last(p.blocks).type # "NT_FOR_NEXT"
    THEN template_error(PopBlock(p), "no 'for' to close")
    ELSE [ForClosed(PopBlock(p), Last(p.blocks))
             EXCEPT !.nodes[Len(p.nodes) + 1].next = Last(p.blocks).for_start - 1]

ForClose(p) ==
    IF p.blocks = <<>> \/ Last(p.blocks).type # "NT_FOR_NEXT"
    THEN template_error(PopBlock(p), "no 'for' to close")
    ELSE ForClosed(PopBlock(p), Last(p.blocks))

template_parse_for_open(p) == IF IsOpen(p) THEN ForOpen(p, Len(p.nodes)) ELSE p

template_parse_for_close(p) == IF p.err = NoErr /\ IsClose(p) THEN ForClose(p) ELSE p

template_parse_for(p) == template_parse_for_close(template_parse_for_open(p))

\* template_parse_set: Set node k
SetExpressions(p, k) ==
    IF p.err # NoErr THEN p
    ELSE AttrExpression(p, k, table_get(p.attrs, AttrName.expressions, FALSE),
                        "missing attribute 'expressions'")

SetOpen(p, k) ==
    SetExpressions(
        AttrNames(template_append_node(p, [NodeZero EXCEPT !.type = "NT_SET", !.ref = LUA_NOREF]),
                  k, table_get(p.attrs, AttrName.names, FALSE)),
        k)

template_parse_set(p) == IF IsOpen(p) THEN SetOpen(p, Len(p.nodes)) ELSE p

\* template_parse_include: Include node k
IncludeOpen(p, k) ==
    AttrExpression(
        template_append_node(p, [NodeZero EXCEPT !.type = "NT_INCLUDE", !.ref = LUA_NOREF]),
        k, table_get(p.attrs, AttrName.filename, FALSE), "missing attribute 'filename'")

template_parse_include(p) == IF IsOpen(p) THEN IncludeOpen(p, Len(p.nodes)) ELSE p

-----------------------------------------------------------------------------
(* Compiler: template_parse_element                                         *)

\* p->pos advanced to the end of the element name
RECURSIVE NameScan(_, _)
NameScan(str, pos) ==
    IF ~isspace(At(str, pos)) /\ At(str, pos) # 62 /\ At(str, pos) # 47 /\ At(str, pos) # 0
    THEN NameScan(str, pos + 1) ELSE pos

\* p->pos advanced to the end of an attribute name
RECURSIVE KeyScan(_, _)
KeyScan(str, pos) ==
    IF ~isspace(At(str, pos)) /\ At(str, pos) # 61 /\ At(str, pos) # 0
    THEN KeyScan(str, pos + 1) ELSE pos

\* p->pos advanced to byte c or to the end of the buffer
RECURSIVE ScanTo(_, _, _)
ScanTo(str, pos, c) ==
    IF At(str, pos) # c /\ At(str, pos) # 0 THEN ScanTo(str, pos + 1, c) ELSE pos

\* "<l:" or "</l:": the element flags, p->pos behind the prefix
ElemStart(p) ==
    IF At(p.str, p.pos + 1) = 47
    THEN [p EXCEPT !.element = TEMPLATE_ECLOSE, !.pos = @ + 4, !.el = p.pos + 4]
    ELSE [p EXCEPT !.element = TEMPLATE_EOPEN, !.pos = @ + 3, !.el = p.pos + 3]

\* the element name, the white space behind it, table_clear(p->attrs)
ElemName(p) ==
    [p EXCEPT !.el_end = NameScan(p.str, p.pos),
              !.pos = SkipSpace(p.str, NameScan(p.str, p.pos)),
              !.attrs = table_clear(@).t]

\* one attribute: key
AttrKey(p) ==
    IF KeyScan(p.str, p.pos) = p.pos
    THEN template_error(p, "attribute name expected")
    ELSE [p EXCEPT !.key = p.pos, !.key_end = KeyScan(p.str, p.pos),
                   !.pos = SkipSpace(p.str, KeyScan(p.str, p.pos))]

\* '=' and the opening quote
AttrEq(p) ==
    IF p.err # NoErr THEN p
    ELSE IF At(p.str, p.pos) # 61 THEN template_error(p, "'=' expected")
    ELSE IF At(p.str, SkipSpace(p.str, p.pos + 1)) # 34
    THEN template_error([p EXCEPT !.pos = SkipSpace(p.str, p.pos + 1)], "'\"' expected")
    ELSE [p EXCEPT !.pos = SkipSpace(p.str, p.pos + 1) + 1,
                   !.val = SkipSpace(p.str, p.pos + 1) + 1]

\* the value up to the closing quote
AttrVal(p) ==
    IF p.err # NoErr THEN p
    ELSE IF At(p.str, ScanTo(p.str, p.pos, 34)) # 34
    THEN template_error([p EXCEPT !.pos = ScanTo(p.str, p.pos, 34)], "'\"' expected")
    ELSE [p EXCEPT !.val_end = ScanTo(p.str, p.pos, 34),
                   !.pos = ScanTo(p.str, p.pos, 34) + 1]

\* key and value are terminated and unescaped in place
AttrUnescape(p) ==
    IF p.err # NoErr THEN p
    ELSE [p EXCEPT !.str = template_unescape_xml(
                               Poke(template_unescape_xml(Poke(@, p.key_end, 0), p.key),
                                    p.val_end, 0),
                               p.val)]

\* table_set(p->attrs, key, val), whose result the code ignores
AttrStore(p) ==
    IF p.err # NoErr THEN p
    ELSE [p EXCEPT !.attrs = table_set(@, CStr(p.str, p.key), p.val, FALSE, TRUE, TRUE).t,
                   !.pos = SkipSpace(p.str, p.pos)]

RECURSIVE ElemAttrs(_)
ElemAttrs(p) ==
    IF p.err # NoErr THEN p
    ELSE IF At(p.str, p.pos) = 62 \/ At(p.str, p.pos) = 47 \/ At(p.str, p.pos) = 0 THEN p
    ELSE ElemAttrs(AttrStore(AttrUnescape(AttrVal(AttrEq(AttrKey(p))))))

\* an optional '/' and the closing '>'
ElemSlash(p) ==
    IF p.err = NoErr /\ At(p.str, p.pos) = 47
    THEN [p EXCEPT !.pos = @ + 1,
                   !.element = IF IsClose(p) THEN @ ELSE @ + TEMPLATE_ECLOSE]
    ELSE p

ElemEnd(p) ==
    IF p.err # NoErr THEN p
    ELSE IF At(p.str, p.pos) # 62 THEN template_error(p, "'>' expected")
    ELSE [p EXCEPT !.pos = @ + 1]

\* the switch on the length of the element name and strncmp
ElemDispatch(p, name) ==
    IF p.err # NoErr THEN p
    ELSE IF name = ElementName.if THEN template_parse_if(p)
    ELSE IF name = ElementName.for THEN template_parse_for(p)
    ELSE IF name = ElementName.set THEN template_parse_set(p)
    ELSE IF name = ElementName.else THEN template_parse_else(p)
    ELSE IF name = ElementName.elseif THEN template_parse_elseif(p)
    ELSE IF name = ElementName.include THEN template_parse_include(p)
    ELSE template_error(p, "bad element")

ElemScanned(p) == ElemDispatch(p, SubSeq(p.str, p.el, p.el_end - 1))

template_parse_element(p) ==
    ElemScanned(ElemEnd(ElemSlash(ElemAttrs(ElemName(ElemStart(p))))))

-----------------------------------------------------------------------------
(* Compiler: template_parse_sub, template_parse_raw, template_parse         *)

\* the scan for the '}' that ends the expression: [pos, braces]
RECURSIVE SubScan(_, _, _, _)
SubScan(str, pos, braces, quot) ==
    IF At(str, pos) = 0 \/ braces <= 0 THEN [pos |-> pos, braces |-> braces]
    ELSE IF At(str, pos) = 123
    THEN SubScan(str, pos + 1, IF quot = 0 THEN braces + 1 ELSE braces, quot)
    ELSE IF At(str, pos) = 125
    THEN SubScan(str, pos + 1, IF quot = 0 THEN braces - 1 ELSE braces, quot)
    ELSE IF At(str, pos) = 34
    THEN SubScan(str, pos + 1, braces, IF quot = 0 THEN 1 ELSE IF quot = 1 THEN 0 ELSE quot)
    ELSE IF At(str, pos) = 39
    THEN SubScan(str, pos + 1, braces, IF quot = 0 THEN 2 ELSE IF quot = 2 THEN 0 ELSE quot)
    ELSE IF At(str, pos) = 92
    THEN SubScan(str,
                 IF (quot = 1 /\ At(str, pos + 1) = 34) \/ (quot = 2 /\ At(str, pos + 1) = 39)
                 THEN pos + 2 ELSE pos + 1,
                 braces, quot)
    ELSE SubScan(str, pos + 1, braces, quot)

\* node k gets the flags r of the block that ends at position e
SubFlagsParsed(p, k, e, r) ==
    IF r.err # "" THEN template_error([p EXCEPT !.pos = e, !.str = Poke(@, e, 0)], r.err)
    ELSE [p EXCEPT !.pos = e + 1, !.str = Poke(@, e, 0), !.nodes[k + 1].flags = r.value]

\* "[flags]": e is the position of ']' or of the end of the buffer
SubFlagsBlock(p, k, e) ==
    IF At(p.str, e) # 93 THEN template_error([p EXCEPT !.pos = e], "']' expected")
    ELSE SubFlagsParsed(p, k, e, template_parse_flags(SubSeq(p.str, p.pos + 1, e - 1), 1, 0))

\* optional flags; p->pos is behind the '$'
SubFlags(p, k) ==
    IF At(p.str, p.pos) = 91 THEN SubFlagsBlock(p, k, ScanTo(p.str, p.pos + 1, 93))
    ELSE [p EXCEPT !.nodes[k + 1].flags = TEMPLATE_FESCXML]

\* the expression from position expression to the '}' found by the scan sc
SubExpressionEnd(p, k, expression, sc) ==
    IF sc.braces > 0 THEN template_error([p EXCEPT !.pos = sc.pos], "'}' expected")
    ELSE template_parse_expression(
             [p EXCEPT !.pos = sc.pos,
                       !.str = template_unescape_xml(Poke(@, sc.pos - 1, 0), expression)],
             k,
             CStr(template_unescape_xml(Poke(p.str, sc.pos - 1, 0), expression), expression))

SubExpression(p, k) ==
    IF p.err # NoErr THEN p
    ELSE IF At(p.str, p.pos) # 123 THEN template_error(p, "'{' expected")
    ELSE SubExpressionEnd(p, k, p.pos + 1, SubScan(p.str, p.pos + 1, 1, 0))

template_parse_sub(p) ==
    SubExpression(
        SubFlags([p EXCEPT !.nodes = Append(@, [NodeZero EXCEPT !.type = "NT_SUB",
                                                                 !.ref = LUA_NOREF]),
                           !.pos = @ + 1],
                 Len(p.nodes)),
        Len(p.nodes))

\* a variant of template_parse_raw that drops the last byte of the text (C5
\* must tell it from template_parse_raw)
template_parse_raw_short(p) ==
    IF p.pos > p.begin
    THEN template_append_node(p, [NodeZero EXCEPT !.type = "NT_RAW", !.raw_str = p.begin,
                                                   !.raw_len = p.pos - p.begin - 1])
    ELSE p

template_parse_raw(p) ==
    IF p.pos > p.begin
    THEN template_append_node(p, [NodeZero EXCEPT !.type = "NT_RAW", !.raw_str = p.begin,
                                                   !.raw_len = p.pos - p.begin])
    ELSE p

SetBegin(p) == IF p.err # NoErr THEN p ELSE [p EXCEPT !.begin = p.pos]

IsElementOpener(str, pos) ==
    \/ At(str, pos + 1) = 108 /\ At(str, pos + 2) = 58
    \/ At(str, pos + 1) = 47 /\ At(str, pos + 2) = 108 /\ At(str, pos + 3) = 58

\* a variant of the loop without the case of "$$" (C20 must tell it from
\* ParseLoop)
RECURSIVE ParseLoop_nopair(_)
ParseLoop_nopair(p) ==
    IF p.err # NoErr \/ At(p.str, p.pos) = 0 THEN p
    ELSE IF At(p.str, p.pos) = 60 /\ IsElementOpener(p.str, p.pos)
    THEN ParseLoop_nopair(SetBegin(template_parse_element(template_parse_raw(p))))
    ELSE IF At(p.str, p.pos) = 36 /\ (At(p.str, p.pos + 1) = 123 \/ At(p.str, p.pos + 1) = 91)
    THEN ParseLoop_nopair(SetBegin(template_parse_sub(template_parse_raw(p))))
    ELSE ParseLoop_nopair([p EXCEPT !.pos = @ + 1])

\* the loop of template_parse over the bytes of the buffer
RECURSIVE ParseLoop(_)
ParseLoop(p) ==
    IF p.err # NoErr \/ At(p.str, p.pos) = 0 THEN p
    ELSE IF At(p.str, p.pos) = 60 /\ IsElementOpener(p.str, p.pos)
    THEN ParseLoop(SetBegin(template_parse_element(template_parse_raw(p))))
    ELSE IF At(p.str, p.pos) = 36 /\ (At(p.str, p.pos + 1) = 123 \/ At(p.str, p.pos + 1) = 91)
    THEN ParseLoop(SetBegin(template_parse_sub(template_parse_raw(p))))
    ELSE IF At(p.str, p.pos) = 36 /\ At(p.str, p.pos + 1) = 36
    THEN ParseLoop(SetBegin([template_parse_raw([p EXCEPT !.pos = @ + 1]) EXCEPT !.pos = @ + 1]))
    ELSE ParseLoop([p EXCEPT !.pos = @ + 1])

\* a variant of the end without the check of the block stack (C12 must tell
\* it from ParseEnd)
ParseEnd_unchecked(p) == p

\* the end of template_parse: the last raw text, the check of the block stack
ParseEnd(p) ==
    IF p.err # NoErr THEN p
    ELSE IF Len(p.blocks) > 0
    THEN [p EXCEPT !.err = [msg |-> "open element(s) at end of template", n |-> Len(p.blocks)]]
    ELSE p

ParseResult(p) ==
    [ok |-> p.err = NoErr, err |-> p.err, reg |-> p.reg,
     template |-> [str |-> p.str, nodes |-> p.nodes, env |-> 0]]

ParseFinish(p) == ParseResult(ParseEnd(IF p.err # NoErr THEN p ELSE template_parse_raw(p)))

\* template_parse for the source the resolver returned (a Lua value):
\* [ok, err, reg, template]
template_parse(src, reg) ==
    IF ~lua_isstring(src)
    THEN [ok |-> FALSE, err |-> [msg |-> "error resolving template", n |-> 0], reg |-> reg,
          template |-> [str |-> <<>>, nodes |-> <<>>, env |-> 0]]
    ELSE ParseFinish(ParseLoop(ParserInit(lua_tostring(src), reg)))

-----------------------------------------------------------------------------
(* Interpreter: the encoders of a Sub node (template.c:1102-1195)           *)

template_hex_digits == <<48, 49, 50, 51, 52, 53, 54, 55, 56, 57, 65, 66, 67, 68, 69, 70>>

\* the value of *c for the byte b: plain char is signed (sgn) or unsigned
CharValue(b, sgn) == IF sgn /\ b >= 128 THEN b - 256 ELSE b

\* C division and remainder, which truncate towards zero
CDiv(a, b) == IF a >= 0 THEN a \div b ELSE -((-a) \div b)

CMod(a, b) == IF a >= 0 THEN a % b ELSE -((-a) % b)

\* template_hex_digits[idx]; an index outside the array reads the byte oob
HexDigit(idx, oob) == IF idx >= 0 /\ idx <= 15 THEN template_hex_digits[idx + 1] ELSE oob

\* isalnum(*c); for a negative argument other than EOF (-1) the call is
\* undefined, alnum_neg is its outcome
IsAlnumChar(v, alnum_neg) == IF v >= 0 THEN isalnum(v) ELSE IF v = -1 THEN FALSE ELSE alnum_neg

\* the URL encoder for one byte b
UrlByte(b, sgn, alnum_neg, oob) ==
    IF \/ IsAlnumChar(CharValue(b, sgn), alnum_neg)
       \/ b = 45 \/ b = 46 \/ b = 95 \/ b = 126
    THEN <<b>>
    ELSE <<37, HexDigit(CDiv(CharValue(b, sgn), 16), oob),
               HexDigit(CMod(CharValue(b, sgn), 16), oob)>>

RECURSIVE UrlEncode(_, _, _, _)
UrlEncode(str, sgn, alnum_neg, oob) ==
    IF str = <<>> THEN <<>>
    ELSE UrlByte(Head(str), sgn, alnum_neg, oob)
             \o UrlEncode(Tail(str), sgn, alnum_neg, oob)

\* a variant of XmlByte that leaves '>' as it is (C7 must tell it from XmlByte)
XmlByte_lt_only(b) ==
    IF b = 38 THEN <<38, 97, 109, 112, 59>>
    ELSE IF b = 60 THEN <<38, 108, 116, 59>>
    ELSE <<b>>

\* the XML encoder for one byte
XmlByte(b) ==
    IF b = 38 THEN <<38, 97, 109, 112, 59>>
    ELSE IF b = 60 THEN <<38, 108, 116, 59>>
    ELSE IF b = 62 THEN <<38, 103, 116, 59>>
    ELSE <<b>>

RECURSIVE XmlEncode(_)
XmlEncode(str) == IF str = <<>> THEN <<>> ELSE XmlByte(Head(str)) \o XmlEncode(Tail(str))

\* the JavaScript string encoder for one byte
JsByte(b) ==
    IF b = 8 THEN <<92, 98>>
    ELSE IF b = 9 THEN <<92, 116>>
    ELSE IF b = 10 THEN <<92, 110>>
    ELSE IF b = 11 THEN <<92, 118>>
    ELSE IF b = 12 THEN <<92, 102>>
    ELSE IF b = 13 THEN <<92, 114>>
    ELSE IF b = 34 THEN <<92, 34>>
    ELSE IF b = 39 THEN <<92, 39>>
    ELSE IF b = 92 THEN <<92, 92>>
    ELSE <<b>>

RECURSIVE JsEncode(_)
JsEncode(str) == IF str = <<>> THEN <<>> ELSE JsByte(Head(str)) \o JsEncode(Tail(str))

\* a variant of SubString without the test of TEMPLATE_FSUPNIL (C9 must tell
\* it from SubString)
SubString_no_supnil(v, sub_flags) ==
    IF lua_isstring(v) THEN CStr(lua_tostring(v), 1) ELSE ParenTypeName(v).s

\* the C string str of a Sub node for the value v of its expression
SubString(v, sub_flags) ==
    IF lua_isstring(v) THEN CStr(lua_tostring(v), 1)
    ELSE IF lua_isnil(v) /\ (sub_flags \div TEMPLATE_FSUPNIL) % 2 = 1 THEN <<>>
    ELSE ParenTypeName(v).s

\* a variant of SubEncode whose default case is the XML encoder (C6 must
\* tell it from SubEncode)
SubEncode_xml_default(str, sub_flags, sgn, alnum_neg, oob) ==
    IF sub_flags % (TEMPLATE_FESC + 1) = TEMPLATE_FESCURL
    THEN UrlEncode(str, sgn, alnum_neg, oob)
    ELSE IF sub_flags % (TEMPLATE_FESC + 1) = TEMPLATE_FESCJS THEN JsEncode(str)
    ELSE XmlEncode(str)

\* the switch on sub_flags & TEMPLATE_FESC
SubEncode(str, sub_flags, sgn, alnum_neg, oob) ==
    IF sub_flags % (TEMPLATE_FESC + 1) = TEMPLATE_FESCXML THEN XmlEncode(str)
    ELSE IF sub_flags % (TEMPLATE_FESC + 1) = TEMPLATE_FESCURL
    THEN UrlEncode(str, sgn, alnum_neg, oob)
    ELSE IF sub_flags % (TEMPLATE_FESC + 1) = TEMPLATE_FESCJS THEN JsEncode(str)
    ELSE str

\* the bytes a Sub node writes for the value v
SubOutput(v, sub_flags, sgn, alnum_neg, oob) ==
    SubEncode(SubString(v, sub_flags), sub_flags, sgn, alnum_neg, oob)

\* the URL encoder reads a char as a negative number
UrlUndefined(str, sub_flags, sgn) ==
    /\ sub_flags % (TEMPLATE_FESC + 1) = TEMPLATE_FESCURL
    /\ sgn
    /\ \E i \in 1..Len(str) : str[i] >= 128

-----------------------------------------------------------------------------
(* Reference map *)

\* shadow[k] is the last value set for k, 0 if k was never set (or the table
\* was cleared since), Removed if k was set and then removed by table_set
Removed == -1

\* the key as the table identifies it
Canon(tb, key) == IF tb.ci THEN LowerStr(key) ELSE key

CanonKeys == Keys \cup {LowerStr(k) : k \in Keys} \cup ChainKeys

\* the slot table_find returns for key, or -1
OwnSlot(tb, key, stale) == table_find(tb, key, table_hash(tb, key), stale)

\* the slot table_find returns for key is in state set, if there is one
FoundIsSet(tb, entry) == entry # -1 => tb.entries[entry].state = TES_SET

-----------------------------------------------------------------------------
(* Table operations as actions *)

\* the interpreter at rest, with nothing to resolve
RenderIdle ==
    /\ resolver = EmptyMap
    /\ templates = EmptyMap
    /\ registry = EmptyMap
    /\ ctx = EmptyMap
    /\ L = <<>>
    /\ frames = <<>>
    /\ out = <<>>
    /\ pc = "idle"
    /\ err = NoErr
    /\ calls = <<>>
    /\ renders = 0
    /\ resolved = <<>>
    /\ room = -1
    /\ char_signed = FALSE

TInit ==
    /\ \E load \in 0..MaxCreateLoad, dup \in BOOLEAN :
           t = table_set_dup(table_create(load), dup).t
    /\ shadow = [k \in CanonKeys |-> 0]
    /\ ret = [res |-> 0, hang |-> FALSE]
    /\ ub = FALSE
    /\ fails = 0
    /\ RenderIdle

\* table_set(t, key, value); value 0 removes; nothing is modelled after
\* undefined behaviour or in a call that does not return
TableSetResult(c, value, r, failed) ==
    /\ t' = r.t
    /\ ub' = (ub \/ r.ub)
    /\ ret' = [res |-> r.res, hang |-> r.hang]
    /\ fails' = fails + (IF failed THEN 1 ELSE 0)
    /\ shadow' = IF r.res # 0 \/ r.hang THEN shadow
                 ELSE IF value # 0 THEN [shadow EXCEPT ![c] = value]
                 ELSE IF shadow[c] > 0 THEN [shadow EXCEPT ![c] = Removed]
                 ELSE shadow

TableSet(key, value, stale, calloc_ok, strdup_ok) ==
    /\ ~ret.hang /\ ~ub
    /\ value = 0 => t.count > -MaxUnderflow
    /\ \E r \in {table_set(t, key, value, stale, calloc_ok, strdup_ok)} :
           TableSetResult(Canon(t, key), value, r, ~(calloc_ok /\ strdup_ok))

\* table_clear(t)
TableClearResult(r) ==
    /\ t' = r.t
    /\ ub' = (ub \/ r.ub)
    /\ ret' = [res |-> 0, hang |-> FALSE]
    /\ shadow' = [k \in CanonKeys |-> 0]
    /\ UNCHANGED fails

TableClear ==
    /\ ~ret.hang /\ ~ub
    /\ TableClearResult(table_clear(t))

\* the outcomes of reading a dangling key: both, if the lookup of key can
\* reach an entry whose key pointer is dangling
StaleOutcomes(key) ==
    IF \E i \in Slots(t) : /\ t.entries[i].state # TES_UNUSED
                           /\ t.entries[i].hash = table_hash(t, key)
                           /\ Dangling(t.entries[i])
    THEN BOOLEAN ELSE {FALSE}

\* table_set(t, key, value) takes the branch that inserts a new entry, the
\* one branch that allocates: value is not NULL and table_find returns NULL
Inserts(key, value, stale) == value # 0 /\ OwnSlot(t, key, stale) = -1

\* the outcomes of an allocation that is only attempted if `attempted'
AllocOutcomes(attempted) == IF attempted /\ fails < MaxFail THEN BOOLEAN ELSE {TRUE}

TNext ==
    \/ \E key \in Keys, value \in {0} \cup Vals :
           \E stale \in StaleOutcomes(key) :
               \E calloc_ok \in AllocOutcomes(t.count = t.load /\ Inserts(key, value, stale)),
                  strdup_ok \in AllocOutcomes(t.dup /\ Inserts(key, value, stale)) :
                      TableSet(key, value, stale, calloc_ok, strdup_ok) /\ UNCHANGED rvars
    \/ TableClear /\ UNCHANGED rvars

SpecTable == TInit /\ [][TNext]_vars

-----------------------------------------------------------------------------
(* Claims about the associative array *)

\* C1: after any sequence of table_set calls without allocation failure,
\* table_get(k) returns the last value set for every key k that was set and
\* not removed afterwards.
C1_LookupReturnsLastSet ==
    (fails = 0 /\ ~ub /\ ~ret.hang) =>
        \A k \in Keys :
            shadow[Canon(t, k)] > 0 => table_get(t, k, FALSE) = shadow[Canon(t, k)]

\* C2: a key removed by table_set(k, absent) and not set again is absent,
\* and a lookup never matches a slot that is not in state set.
C2_RemovedKeyAbsent ==
    (fails = 0 /\ ~ub /\ ~ret.hang) =>
        \A k \in Keys :
            /\ shadow[Canon(t, k)] = Removed => table_get(t, k, FALSE) = 0
            /\ FoundIsSet(t, OwnSlot(t, k, FALSE))

-----------------------------------------------------------------------------
(* Templates and binding contexts the interpreter is driven with            *)

MaxRenders == 1       \* calls of template.render in one run
MaxBranches == 3      \* branches of an if chain, not counting else
MaxItems == 2         \* items of the list a for loop runs over
MaxRawLen == 3        \* bytes of a generated source
MaxFlags == 2         \* characters of a [flags] block
MaxStrLen == 2        \* bytes of a substituted string
MaxTags == 3          \* elements of a generated sequence of block elements
MaxRoom == 3          \* bytes a failing stream accepts before the write that fails
MaxCacheRenders == 3  \* calls of template.render in a run that exercises the cache

\* the identities of the binding contexts
Ctxs == {1}

\* the top-level template "m" and the included template "i"
Main == <<109>>

Incl == <<105>>

\* all byte strings over alphabet of length 0..n
Strings(alphabet, n) == UNION {[1..k -> alphabet] : k \in 0..n}

\* markup
T_if(cond) == <<60, 108, 58, 105, 102, 32, 99, 111, 110, 100, 61, 34>> \o cond \o <<34, 62>>

T_elseif(cond) == <<60, 108, 58, 101, 108, 115, 101, 105, 102, 32, 99, 111, 110, 100, 61, 34>> \o cond \o <<34, 62>>

T_else == <<60, 108, 58, 101, 108, 115, 101, 62>>

T_endif == <<60, 47, 108, 58, 105, 102, 62>>

T_for(names, subject) ==
    <<60, 108, 58, 102, 111, 114, 32, 110, 97, 109, 101, 115, 61, 34>> \o names
        \o <<34, 32, 105, 110, 61, 34>> \o subject \o <<34, 62>>

T_endfor == <<60, 47, 108, 58, 102, 111, 114, 62>>

T_set(names, expressions) ==
    <<60, 108, 58, 115, 101, 116, 32, 110, 97, 109, 101, 115, 61, 34>> \o names
        \o <<34, 32, 101, 120, 112, 114, 101, 115, 115, 105, 111, 110, 115, 61, 34>> \o expressions \o <<34, 47, 62>>

T_include(filename) ==
    <<60, 108, 58, 105, 110, 99, 108, 117, 100, 101, 32, 102, 105, 108, 101, 110, 97, 109, 101, 61, 34>> \o filename \o <<34, 47, 62>>

T_sub(flags, expression) == <<36>> \o flags \o <<123>> \o expression \o <<125>>

T_ipairs(name) == <<105, 112, 97, 105, 114, 115, 40>> \o name \o <<41>>


\* an input: what the resolver returns for each name, the fields of the
\* binding context, and whether the input holds a byte >= 128 (so that the
\* signedness of char matters)
Case(files, env, high) == [files |-> files, env |-> env, high |-> high]

OneFile(src) == [f \in {Main} |-> Str(src)]

\* if chains: "p", the chain of n branches with conditions a, b, .. and
\* bodies A, B, .., an optional else with body z, an optional "s"
CondName(i) == <<96 + i>>

BodyOf(i) == <<64 + i>>

ElseBody == <<122>>

Prefix == <<112>>

Suffix == <<115>>

RECURSIVE ElseifBranches(_, _)
ElseifBranches(i, n) ==
    IF i > n THEN <<>>
    ELSE T_elseif(CondName(i)) \o BodyOf(i) \o ElseifBranches(i + 1, n)

IfChainSource(n, has_else, tail) ==
    Prefix \o T_if(CondName(1)) \o BodyOf(1) \o ElseifBranches(2, n)
        \o (IF has_else THEN T_else \o ElseBody ELSE <<>>)
        \o T_endif \o (IF tail THEN Suffix ELSE <<>>)

CondVals == {Nil, Bool(FALSE), Bool(TRUE), Num(0)}

CondEnv(n, asg) ==
    [nm \in {CondName(i) : i \in {j \in 1..n : ~lua_isnil(asg[j])}} |-> asg[nm[1] - 96]]

IfCases ==
    UNION {{Case(OneFile(IfChainSource(n, has_else, tail)), CondEnv(n, asg), FALSE) :
                has_else \in BOOLEAN, tail \in BOOLEAN, asg \in [1..n -> CondVals]} :
           n \in 1..MaxBranches}

\* for loops over ipairs(t), with names k or k,v; the body writes the names
\* and ";", and holds a loop over ipairs(u) that writes w if nested
NameK == <<107>>

NameV == <<118>>

NameW == <<119>>

NameT == <<116>>

NameU == <<117>>

NameX == <<120>>

NameIpairs == <<105, 112, 97, 105, 114, 115>>

LoopNames(nn) == IF nn = 1 THEN NameK ELSE NameK \o <<44>> \o NameV

InnerLoop ==
    T_for(<<106, 44>> \o NameW, T_ipairs(NameU)) \o T_sub(<<>>, NameW) \o T_endfor

ForBody(nn, nested) ==
    T_sub(<<>>, NameK) \o (IF nn = 1 THEN <<>> ELSE T_sub(<<>>, NameV))
        \o (IF nested THEN InnerLoop ELSE <<>>) \o <<59>>

ForSource(nn, nested) ==
    Prefix \o T_for(LoopNames(nn), T_ipairs(NameT)) \o ForBody(nn, nested) \o T_endfor \o Suffix

ItemsT(k) == [i \in 1..k |-> 64 + i]

ItemsU(j) == [i \in 1..j |-> 96 + i]

ForEnv(k, j) ==
    [nm \in {NameIpairs, NameT, NameU} |->
        IF nm = NameIpairs THEN Fn(FnId.ipairs)
        ELSE IF nm = NameT THEN Tab(ItemsT(k), 1)
        ELSE Tab(ItemsU(j), 2)]

ForCases ==
    {Case(OneFile(ForSource(nn, nested)), ForEnv(k, j), FALSE) :
         nn \in 1..2, nested \in BOOLEAN, k \in 0..MaxItems, j \in 0..MaxItems}

\* sources of up to MaxRawLen bytes over the bytes of the markup
RawBytes == {97, 60, 108, 58, 47, 36, 123, 91}

RawCases == {Case(OneFile(s), EmptyMap, FALSE) : s \in Strings(RawBytes, MaxRawLen)}

\* substitutions $[flags]{x}: every flags block with a few values, and the
\* blocks that select each encoder with every string
FlagChars == {120, 117, 106, 110, 113}

\* blocks that repeat n around an escape letter, and blocks of three letters
\* with two escape letters apart: [nxn], [njnn], [xnu], [unu], [nnn]
LongFlags == {<<110, 120, 110>>, <<110, 106, 110, 110>>, <<120, 110, 117>>,
              <<117, 110, 117>>, <<110, 110, 110>>}

FlagBlocks ==
    {<<>>} \cup {<<91>> \o fs \o <<93>> : fs \in Strings(FlagChars, MaxFlags) \cup LongFlags}

EncBlocks == {<<>>, <<91, 93>>, <<91, 120, 93>>, <<91, 117, 93>>, <<91, 106, 93>>,
              <<91, 110, 93>>}

EncBytes == {38, 60, 62, 97, 32, 34, 92, 10, 126, 233, 255}

SubVals == {Nil, Bool(TRUE), Num(0), Num(42), Num(-7), Tab(<<>>, 1), Fn(FnId.other),
            Str(<<97, 60>>), Str(<<233>>)}

HasHigh(s) == \E i \in 1..Len(s) : s[i] >= 128

SubEnv(v) == IF lua_isnil(v) THEN EmptyMap ELSE [nm \in {NameX} |-> v]

SubCases ==
    {Case(OneFile(T_sub(fl, NameX)), SubEnv(v), HasHigh(v.s)) : fl \in FlagBlocks, v \in SubVals}
        \cup {Case(OneFile(T_sub(fl, NameX)), SubEnv(Str(s)), HasHigh(s)) :
                  fl \in EncBlocks, s \in Strings(EncBytes, MaxStrLen)}

\* set and include
SetCases ==
    {Case(OneFile(T_set(<<97, 44, 98>>, e) \o T_sub(<<>>, <<97>>) \o T_sub(<<>>, <<98>>)),
          [nm \in {NameX, NameK} |-> IF nm = NameX THEN Str(<<49>>) ELSE Num(2)], FALSE) :
         e \in {NameX, NameX \o <<44>> \o NameK, NameK \o <<44>> \o NameX \o <<44>> \o NameX}}

IncludeFiles(filename, inner) ==
    [f \in {Main, Incl} |->
        IF f = Main THEN Str(Prefix \o T_include(filename) \o Suffix) ELSE Str(inner)]

IncludeCases ==
    {Case(IncludeFiles(fn, inner), [nm \in {NameX} |-> Str(Incl)], FALSE) :
         fn \in {<<39>> \o Incl \o <<39>>, <<39>> \o Main \o <<39>>, <<39, 113, 39>>, NameX,
                 NameK},
         inner \in {<<73>>, T_sub(<<>>, NameX), T_include(<<39>> \o Main \o <<39>>)}}

\* sequences of block elements with empty bodies: 1 <l:if cond="a">,
\* 2 <l:elseif cond="b">, 3 <l:else>, 4 </l:if>, 5 <l:for names="k"
\* in="ipairs(t)">, 6 </l:for>; t holds one item, a and b are nil
Tag ==
    <<T_if(CondName(1)), T_elseif(CondName(2)), T_else, T_endif,
      T_for(NameK, T_ipairs(NameT)), T_endfor>>

RECURSIVE TagSource(_)
TagSource(toks) == IF toks = <<>> THEN <<>> ELSE Tag[Head(toks)] \o TagSource(Tail(toks))

LongTagSeqs == {<<1, 5, 6, 2, 3, 4>>, <<5, 1, 3, 4, 6>>, <<1, 2, 2, 3, 4>>, <<1, 5, 1, 5>>}

TagSeqs == Strings(1..6, MaxTags) \cup LongTagSeqs

TagCases == {Case(OneFile(TagSource(toks)), ForEnv(1, 0), FALSE) : toks \in TagSeqs}

\* inputs rendered to a stream on which a write fails: "p", a substitution
\* of "&<" under every encoder, "s"; and an include between "p" and "s"
SinkSource(fl) == Prefix \o T_sub(fl, NameX) \o Suffix

SinkInner == {<<74>>, T_sub(<<91, 110, 93>>, NameX)}

SinkCases ==
    {Case(OneFile(SinkSource(fl)), SubEnv(Str(<<38, 60>>)), FALSE) : fl \in EncBlocks}
        \cup {Case(IncludeFiles(<<39>> \o Incl \o <<39>>, inner), SubEnv(Str(<<38, 60>>)),
                   FALSE) : inner \in SinkInner}

\* "$$" before the bytes that open a substitution, between raw text, and
\* before a substitution; x is "v"
DollarSources ==
    {<<36, 36, 123, 120, 125>>, <<36, 36, 91, 110, 93, 123, 120, 125>>,
     <<97, 36, 36, 36, 36, 98>>, <<36, 36>> \o T_sub(<<>>, NameX)}

DollarCases == {Case(OneFile(s), SubEnv(Str(<<118>>)), FALSE) : s \in DollarSources}

\* the bytes the stream of an input accepts before a write fails; -1: any number
Rooms(c) == IF c \in SinkCases THEN (-1)..MaxRoom ELSE {-1}

\* substitutions whose expression holds string literals and braces:
\* "}", '{', "{", "\"", '\'', "'", '"', {}, "\\", '\\', "\\\"", and the
\* list "a\\","}"
ScanExprs ==
    {<<34, 125, 34>>, <<39, 123, 39>>, <<34, 123, 34>>, <<34, 92, 34, 34>>,
     <<39, 92, 39, 39>>, <<34, 39, 34>>, <<39, 34, 39>>, <<123, 125>>,
     <<34, 92, 92, 34>>, <<39, 92, 92, 39>>, <<34, 92, 92, 92, 34, 34>>,
     <<34, 97, 92, 92, 34, 44, 34, 125, 34>>}

\* expressions that no '}' closes: x, "}", {, '\'}
OpenExprs == {<<120>>, <<34, 125, 34>>, <<123>>, <<39, 92, 39, 125>>}

\* "${" e "}z" and "${" e
ScanSource(e) == <<36, 123>> \o e \o <<125, 122>>

OpenSource(e) == <<36, 123>> \o e

ScanCases ==
    {Case(OneFile(ScanSource(e)), EmptyMap, FALSE) : e \in ScanExprs}
        \cup {Case(OneFile(OpenSource(e)), EmptyMap, FALSE) : e \in OpenExprs}

\* loops with an if, a set, a substitution and an include in the body: "p",
\* a loop over ipairs(t) with names k,v whose body writes k, runs the loop
\* over ipairs(u) if a is true and else sets k and t to x, and includes "i";
\* then "s". "i" holds the loop over ipairs(u), or a loop over ipairs(t)
NameA == CondName(1)

LoopBody ==
    T_sub(<<>>, NameK) \o T_if(NameA) \o InnerLoop \o T_else
        \o T_set(NameK \o <<44>> \o NameT, NameX \o <<44>> \o NameX) \o T_endif
        \o T_include(<<39>> \o Incl \o <<39>>) \o <<59>>

LoopSource == Prefix \o T_for(LoopNames(2), T_ipairs(NameT)) \o LoopBody \o T_endfor \o Suffix

LoopInner == {InnerLoop, T_for(NameK, T_ipairs(NameT)) \o T_sub(<<>>, NameK) \o T_endfor}

LoopFiles(inner) == [f \in {Main, Incl} |-> IF f = Main THEN Str(LoopSource) ELSE Str(inner)]

LoopEnv(k, j, a) ==
    [nm \in {NameIpairs, NameT, NameU, NameX} \cup (IF lua_isnil(a) THEN {} ELSE {NameA}) |->
        IF nm = NameX THEN Str(<<49>>)
        ELSE IF nm = NameA THEN a
        ELSE ForEnv(k, j)[nm]]

LoopCases ==
    {Case(LoopFiles(inner), LoopEnv(k, j, a), FALSE) :
         inner \in LoopInner, k \in 0..MaxItems, j \in 0..MaxItems, a \in {Nil, Bool(TRUE)}}

Cases ==
    IfCases \cup ForCases \cup RawCases \cup SubCases \cup SetCases \cup IncludeCases
        \cup TagCases \cup SinkCases \cup DollarCases \cup ScanCases \cup LoopCases

\* a byte read from outside template_hex_digits
OobBytes == {0, 70, 255}

-----------------------------------------------------------------------------
(* Interpreter: template_render and template_render_template, one action    *)
(* per node executed. frames is the chain of activations of                  *)
(* template_render_template: the filename and the node index i of each, i    *)
(* being -1 until the activation has found or compiled its template.         *)

Top == frames[Len(frames)]

CurTemplate == templates[Top.filename]

CurNode == NodeAt(CurTemplate.nodes, Top.i)

\* the activation on top is about to execute a node of the given type
AtNode(type) ==
    /\ pc = "running"
    /\ Top.i >= 0
    /\ Top.i < Len(CurTemplate.nodes)
    /\ CurNode.type = type

\* the table a closure reads its names from: upvalue 0 is the globals, which
\* hold nothing in the model
EnvTable(upv) == IF upv = 0 THEN EmptyMap ELSE ctx[upv]

\* template_eval(L, ref, nret) before the adjustment to nret: [ok, vals]
template_eval(ref) == LuaEval(registry[ref].code, EnvTable(registry[ref].upv), 1)

\* the context the render was called with: the table at index 2
Context == L[2].n

\* a variant of Bind that sets the first name only (C4 must tell it from Bind)
Bind_first(tbl, names, vals, nret) ==
    IF nret = 0 THEN tbl ELSE SetField(tbl, names[1], vals[1])

\* lua_setfield(L, 2, names[nret-1]) .. lua_setfield(L, 2, names[0]), each
\* popping the value on top
RECURSIVE Bind(_, _, _, _)
Bind(tbl, names, vals, nret) ==
    IF nret = 0 THEN tbl
    ELSE Bind(SetField(tbl, names[nret], vals[nret]), names, vals, nret - 1)

\* i = target for the activation on top
Goto(target) == frames' = [frames EXCEPT ![Len(frames)].i = target]

\* luaL_error: the render ends, the stack of the call is gone
Raise(e) ==
    /\ pc' = "error"
    /\ err' = e
    /\ frames' = <<>>
    /\ L' = <<>>
    /\ UNCHANGED <<resolver, templates, registry, ctx, calls, renders, char_signed, ub>>

\* an error that is raised without a write and without a call of the resolver
RenderError(e) == Raise(e) /\ UNCHANGED <<out, resolved, room>>

\* fputc, fputs or fwrite of bytes to a stream that accepts room more bytes
\* (room < 0: every byte) before one write fails: [ok, out, room]
Written(bytes) ==
    IF room < 0 \/ Len(bytes) <= room
    THEN [ok |-> TRUE, out |-> out \o bytes,
          room |-> IF room < 0 THEN room ELSE room - Len(bytes)]
    ELSE [ok |-> FALSE, out |-> out \o SubSeq(bytes, 1, room), room |-> -1]

\* a variant of WriteDone that goes on behind a write that failed (C17 must
\* tell it from WriteDone)
WriteDone_continue(w) ==
    /\ out' = w.out
    /\ room' = w.room
    /\ Goto(Top.i + 1)
    /\ UNCHANGED <<resolver, templates, registry, ctx, L, pc, err, calls, renders, char_signed>>

\* the node has written w: i++, or luaL_error(L, "error writing template")
WriteDone(w) ==
    /\ out' = w.out
    /\ room' = w.room
    /\ IF w.ok
       THEN /\ Goto(Top.i + 1)
            /\ UNCHANGED <<resolver, templates, registry, ctx, L, pc, err, calls, renders,
                           char_signed>>
       ELSE /\ pc' = "error"
            /\ err' = [msg |-> "error writing template", n |-> 0]
            /\ frames' = <<>>
            /\ L' = <<>>
            /\ UNCHANGED <<resolver, templates, registry, ctx, calls, renders, char_signed>>


\* template.render(filename, context c, stream)
TemplateRenderUpTo(filename, c, max) ==
    /\ pc # "running"
    /\ renders < max
    /\ L' = <<Str(filename), Tab(<<>>, c), Udata(<<>>, 0), Tab(<<>>, 0)>>
    /\ frames' = <<[filename |-> filename, i |-> -1]>>
    /\ pc' = "running"
    /\ err' = NoErr
    /\ out' = <<>>
    /\ calls' = <<>>
    /\ renders' = renders + 1
    /\ UNCHANGED <<resolver, templates, registry, ctx, resolved, room, char_signed, ub>>

TemplateRender(filename, c) == TemplateRenderUpTo(filename, c, MaxRenders)

\* a variant of template_setenv that leaves the expressions of the Include
\* nodes as they are (C16 must tell it from template_setenv)
template_setenv_skip_include(reg, nodes, c) ==
    [r \in DOMAIN reg |->
        IF \E k \in 1..Len(nodes) :
               nodes[k].type \in {"NT_IF", "NT_FOR_INIT", "NT_SET", "NT_SUB"} /\ nodes[k].ref = r
        THEN [reg[r] EXCEPT !.upv = c]
        ELSE reg[r]]

\* template_setenv: the first upvalue of every expression of the template
\* becomes context c
ExprNodes == {"NT_IF", "NT_FOR_INIT", "NT_SET", "NT_INCLUDE", "NT_SUB"}

template_setenv(reg, nodes, c) ==
    [r \in DOMAIN reg |->
        IF \E k \in 1..Len(nodes) : nodes[k].type \in ExprNodes /\ nodes[k].ref = r
        THEN [reg[r] EXCEPT !.upv = c]
        ELSE reg[r]]

\* the template is on the stack: rebinding if its context differs, i = 0
Entered(tpl, reg) ==
    /\ templates' = [f \in (DOMAIN templates) \cup {Top.filename} |->
                        IF f = Top.filename THEN [tpl EXCEPT !.env = Context]
                        ELSE templates[f]]
    /\ registry' = IF tpl.env # Context THEN template_setenv(reg, tpl.nodes, Context) ELSE reg
    /\ L' = Append(L, Udata(Top.filename, 1))
    /\ Goto(0)
    /\ UNCHANGED <<resolver, ctx, out, pc, err, calls, renders, room, char_signed, ub>>

\* a variant of Parsed that stores what a failed parse has built in the cache
\* (C15 must tell it from Parsed)
Parsed_keep(r) ==
    /\ resolved' = Append(resolved, Top.filename)
    /\ IF r.ok THEN Entered(r.template, r.reg)
       ELSE /\ pc' = "error"
            /\ err' = r.err
            /\ frames' = <<>>
            /\ L' = <<>>
            /\ templates' = [f \in (DOMAIN templates) \cup {Top.filename} |->
                                IF f = Top.filename THEN r.template ELSE templates[f]]
            /\ UNCHANGED <<resolver, registry, ctx, out, calls, renders, room, char_signed, ub>>

\* lua_call of template_parse, which calls the resolver; a failed parse leaves
\* nothing behind
Parsed(r) ==
    /\ resolved' = Append(resolved, Top.filename)
    /\ IF r.ok THEN Entered(r.template, r.reg) ELSE Raise(r.err) /\ UNCHANGED <<out, room>>

\* a variant of the head that never looks into the cache (C14 must tell it
\* from RenderTemplateEnter)
RenderTemplateEnter_nocache ==
    /\ pc = "running"
    /\ Top.i = -1
    /\ IF Len(frames) > TEMPLATE_MAX_DEPTH
       THEN RenderError([msg |-> "template depth exceeds", n |-> TEMPLATE_MAX_DEPTH])
       ELSE Parsed(template_parse(GetField(resolver, Top.filename), registry))

\* a variant of the head that enters at every depth (C11 must tell it from
\* RenderTemplateEnter)
RenderTemplateEnter_unchecked ==
    /\ pc = "running"
    /\ Top.i = -1
    /\ IF Top.filename \in DOMAIN templates
       THEN Entered(templates[Top.filename], registry) /\ resolved' = resolved
       ELSE Parsed(template_parse(GetField(resolver, Top.filename), registry))

\* the head of template_render_template: depth check, cache, rebinding
RenderTemplateEnter ==
    /\ pc = "running"
    /\ Top.i = -1
    /\ IF Len(frames) > TEMPLATE_MAX_DEPTH
       THEN RenderError([msg |-> "template depth exceeds", n |-> TEMPLATE_MAX_DEPTH])
       ELSE IF Top.filename \in DOMAIN templates
       THEN Entered(templates[Top.filename], registry) /\ resolved' = resolved
       ELSE Parsed(template_parse(GetField(resolver, Top.filename), registry))

\* the end of the loop of template_render_template: the template is popped;
\* the includer pops the filename and goes on, template_render returns
RenderTemplateReturn ==
    /\ pc = "running"
    /\ Top.i >= 0
    /\ Top.i >= Len(CurTemplate.nodes)
    /\ IF Len(frames) = 1
       THEN /\ pc' = "done"
            /\ frames' = <<>>
            /\ L' = Pop(L, 1)
       ELSE /\ pc' = pc
            /\ frames' = [SubSeq(frames, 1, Len(frames) - 1)
                             EXCEPT ![Len(frames) - 1].i = @ + 1]
            /\ L' = Pop(L, 2)
    /\ UNCHANGED <<resolver, templates, registry, ctx, out, err, calls, renders, resolved, room,
                   char_signed, ub>>

\* NT_JUMP
RenderJump ==
    /\ AtNode("NT_JUMP")
    /\ Goto(CurNode.next)
    /\ UNCHANGED <<resolver, templates, registry, ctx, L, out, pc, err, calls, renders,
                   resolved, room,
                   char_signed, ub>>

\* NT_IF
IfEvaluated(r) ==
    IF ~r.ok THEN RenderError([msg |-> "error in expression", n |-> 0])
    ELSE /\ Goto(IF lua_toboolean(Adjust(r.vals, 1)[1]) THEN Top.i + 1 ELSE CurNode.next)
         /\ UNCHANGED <<resolver, templates, registry, ctx, L, out, pc, err, calls, renders,
                        resolved, room,
                        char_signed, ub>>

RenderIf == AtNode("NT_IF") /\ IfEvaluated(template_eval(CurNode.ref))

\* NT_FOR_INIT
ForInitEvaluated(r) ==
    IF ~r.ok THEN RenderError([msg |-> "error in expression", n |-> 0])
    ELSE /\ L' = L \o Adjust(r.vals, 3)
         /\ Goto(Top.i + 1)
         /\ UNCHANGED <<resolver, templates, registry, ctx, out, pc, err, calls, renders,
                        resolved, room,
                        char_signed, ub>>

RenderForInit == AtNode("NT_FOR_INIT") /\ ForInitEvaluated(template_eval(CurNode.ref))

\* a variant of ForNextCalled that leaves the iterator on the stack when the
\* loop ends
ForNextCalled_leave(nret, st) ==
    IF lua_isnil(StackAt(st, -nret))
    THEN /\ L' = Pop(st, 2 + nret)
         /\ Goto(CurNode.next)
         /\ UNCHANGED ctx
    ELSE /\ L' = Pop(Replace(Append(st, StackAt(st, -nret)), -1 - nret - 1), nret)
         /\ ctx' = [ctx EXCEPT ![Context] =
                       Bind(@, CurNode.names,
                            SubSeq(Replace(Append(st, StackAt(st, -nret)), -1 - nret - 1),
                                   Len(st) - nret + 1, Len(st)),
                            nret)]
         /\ Goto(Top.i + 1)

\* NT_FOR_NEXT, behind lua_call: st is the stack with the nret results on top
ForNextCalled(nret, st) ==
    IF lua_isnil(StackAt(st, -nret))
    THEN /\ L' = Pop(st, 3 + nret)
         /\ Goto(CurNode.next)
         /\ UNCHANGED ctx
    ELSE /\ L' = Pop(Replace(Append(st, StackAt(st, -nret)), -1 - nret - 1), nret)
         /\ ctx' = [ctx EXCEPT ![Context] =
                       Bind(@, CurNode.names,
                            SubSeq(Replace(Append(st, StackAt(st, -nret)), -1 - nret - 1),
                                   Len(st) - nret + 1, Len(st)),
                            nret)]
         /\ Goto(Top.i + 1)

\* the three lua_pushvalue(L, -3) and lua_call(L, 2, nret)
ForNextCall(nret, r) ==
    IF ~r.ok THEN RenderError([msg |-> "error in iterator", n |-> 0])
    ELSE /\ ForNextCalled(nret, L \o Adjust(r.vals, nret))
         /\ calls' = Append(calls, [f |-> StackAt(L, -3), s |-> StackAt(L, -2),
                                    c |-> StackAt(L, -1)])
         /\ UNCHANGED <<resolver, templates, registry, out, pc, err, renders, resolved, room,
                        char_signed, ub>>

RenderForNext ==
    /\ AtNode("NT_FOR_NEXT")
    /\ ForNextCall(Len(CurNode.names),
                   LuaApply(StackAt(L, -3), <<StackAt(L, -2), StackAt(L, -1)>>))

\* NT_SET
SetEvaluated(nret, r) ==
    IF ~r.ok THEN RenderError([msg |-> "error in expression", n |-> 0])
    ELSE /\ ctx' = [ctx EXCEPT ![Context] = Bind(@, CurNode.names, Adjust(r.vals, nret), nret)]
         /\ Goto(Top.i + 1)
         /\ UNCHANGED <<resolver, templates, registry, L, out, pc, err, calls, renders,
                        resolved, room,
                        char_signed, ub>>

RenderSet == AtNode("NT_SET") /\ SetEvaluated(Len(CurNode.names), template_eval(CurNode.ref))

\* template_eval_str: the value, or "(typename)" if it is no string
EvalStr(v) == IF lua_isstring(v) THEN Str(lua_tostring(v)) ELSE ParenTypeName(v)

\* NT_INCLUDE: the call of template_render_template at depth + 1
IncludeEvaluated(r) ==
    IF ~r.ok THEN RenderError([msg |-> "error in expression", n |-> 0])
    ELSE /\ L' = Append(L, EvalStr(Adjust(r.vals, 1)[1]))
         /\ frames' = Append(frames, [filename |-> CStr(EvalStr(Adjust(r.vals, 1)[1]).s, 1),
                                      i |-> -1])
         /\ UNCHANGED <<resolver, templates, registry, ctx, out, pc, err, calls, renders,
                        resolved, room,
                        char_signed, ub>>

RenderInclude == AtNode("NT_INCLUDE") /\ IncludeEvaluated(template_eval(CurNode.ref))

\* the outcomes of the undefined reads of the URL encoder
AlnumOutcomes(undefined) == IF undefined THEN BOOLEAN ELSE {FALSE}

OobOutcomes(undefined) == IF undefined THEN OobBytes ELSE {0}

\* NT_SUB
SubEvaluated(r, v, undefined) ==
    IF ~r.ok THEN RenderError([msg |-> "error in expression", n |-> 0])
    ELSE /\ \E alnum_neg \in AlnumOutcomes(undefined), oob \in OobOutcomes(undefined) :
                WriteDone(Written(SubOutput(v, CurNode.flags, char_signed, alnum_neg, oob)))
         /\ ub' = (ub \/ undefined)
         /\ resolved' = resolved

SubValue(r) ==
    SubEvaluated(r, Adjust(r.vals, 1)[1],
                 r.ok /\ UrlUndefined(SubString(Adjust(r.vals, 1)[1], CurNode.flags),
                                      CurNode.flags, char_signed))

RenderSub == AtNode("NT_SUB") /\ SubValue(template_eval(CurNode.ref))

\* NT_RAW
RenderRaw ==
    /\ AtNode("NT_RAW")
    /\ WriteDone(Written(SubSeq(CurTemplate.str, CurNode.raw_str,
                                 CurNode.raw_str + CurNode.raw_len - 1)))
    /\ UNCHANGED <<resolved, ub>>

\* the references of the expressions of a template
TemplateRefs(tpl) ==
    {tpl.nodes[k].ref : k \in {j \in 1..Len(tpl.nodes) : tpl.nodes[j].type \in ExprNodes}}

\* template.clear(): the registry of templates is dropped; template_gc
\* releases the references of its templates
TemplateClear ==
    /\ pc # "running"
    /\ DOMAIN templates # {}
    /\ templates' = EmptyMap
    /\ registry' = [r \in (DOMAIN registry) \
                        UNION {TemplateRefs(templates[f]) : f \in DOMAIN templates} |->
                        registry[r]]
    /\ UNCHANGED <<resolver, ctx, L, frames, out, pc, err, calls, renders, resolved, room,
                   char_signed, ub>>

-----------------------------------------------------------------------------
(* Specification of the compiler and interpreter                            *)

\* the variables of the associative array, which these actions do not use
tfix == <<t, shadow, ret, fails>>

RInit ==
    /\ \E c \in Cases :
           /\ resolver = c.files
           /\ ctx = [k \in Ctxs |-> c.env]
           /\ char_signed \in (IF c.high THEN BOOLEAN ELSE {FALSE})
           /\ room \in Rooms(c)
    /\ templates = EmptyMap
    /\ registry = EmptyMap
    /\ L = <<>>
    /\ frames = <<>>
    /\ out = <<>>
    /\ pc = "idle"
    /\ err = NoErr
    /\ calls = <<>>
    /\ renders = 0
    /\ resolved = <<>>
    /\ t = table_create(0)
    /\ shadow = [k \in CanonKeys |-> 0]
    /\ ret = [res |-> 0, hang |-> FALSE]
    /\ ub = FALSE
    /\ fails = 0

RNext ==
    \/ \E c \in Ctxs : TemplateRender(Main, c) /\ UNCHANGED tfix
    \/ TemplateClear /\ UNCHANGED tfix
    \/ RenderTemplateEnter /\ UNCHANGED tfix
    \/ RenderTemplateReturn /\ UNCHANGED tfix
    \/ RenderJump /\ UNCHANGED tfix
    \/ RenderIf /\ UNCHANGED tfix
    \/ RenderForInit /\ UNCHANGED tfix
    \/ RenderForNext /\ UNCHANGED tfix
    \/ RenderSet /\ UNCHANGED tfix
    \/ RenderInclude /\ UNCHANGED tfix
    \/ RenderSub /\ UNCHANGED tfix
    \/ RenderRaw /\ UNCHANGED tfix

SpecRender == RInit /\ [][RNext]_vars

-----------------------------------------------------------------------------
(* Specification of the template cache: several renders of several names    *)
(* with two contexts, and template.clear between them                       *)

CacheCtxs == {1, 2}

\* a name whose source does not compile, and a name the resolver does not know
Bad == <<98>>

Missing == <<113>>

NameY == <<121>>

\* "m": an if, a set, an include of the name in x, a substitution;
\* "i": a loop over t; "b": an if that is never closed
CacheFiles ==
    [f \in {Main, Incl, Bad} |->
        IF f = Main
        THEN Str(T_if(CondName(1)) \o BodyOf(1) \o T_endif \o T_set(NameY, NameX)
                     \o T_include(NameX) \o T_sub(<<>>, NameY))
        ELSE IF f = Incl THEN Str(T_for(NameK, T_ipairs(NameT)) \o <<46>> \o T_endfor)
        ELSE Str(T_if(CondName(1)))]

\* context 1: a is true, t holds one item, x names "i"; context 2: a is nil,
\* t is empty, x names target
CacheEnv(k, target) ==
    IF k = 1 THEN SetField(SetField(ForEnv(1, 0), NameX, Str(Incl)), CondName(1), Bool(TRUE))
    ELSE SetField(ForEnv(0, 0), NameX, Str(target))

CInit ==
    /\ resolver = CacheFiles
    /\ \E target \in {Incl, Bad, Missing} : ctx = [k \in CacheCtxs |-> CacheEnv(k, target)]
    /\ char_signed = FALSE
    /\ room = -1
    /\ templates = EmptyMap
    /\ registry = EmptyMap
    /\ L = <<>>
    /\ frames = <<>>
    /\ out = <<>>
    /\ pc = "idle"
    /\ err = NoErr
    /\ calls = <<>>
    /\ renders = 0
    /\ resolved = <<>>
    /\ t = table_create(0)
    /\ shadow = [k \in CanonKeys |-> 0]
    /\ ret = [res |-> 0, hang |-> FALSE]
    /\ ub = FALSE
    /\ fails = 0

CNext ==
    \/ \E f \in DOMAIN CacheFiles, c \in CacheCtxs :
           TemplateRenderUpTo(f, c, MaxCacheRenders) /\ UNCHANGED tfix
    \/ TemplateClear /\ UNCHANGED tfix
    \/ RenderTemplateEnter /\ UNCHANGED tfix
    \/ RenderTemplateReturn /\ UNCHANGED tfix
    \/ RenderJump /\ UNCHANGED tfix
    \/ RenderIf /\ UNCHANGED tfix
    \/ RenderForInit /\ UNCHANGED tfix
    \/ RenderForNext /\ UNCHANGED tfix
    \/ RenderSet /\ UNCHANGED tfix
    \/ RenderInclude /\ UNCHANGED tfix
    \/ RenderSub /\ UNCHANGED tfix
    \/ RenderRaw /\ UNCHANGED tfix

SpecCache == CInit /\ [][CNext]_vars

-----------------------------------------------------------------------------
(* Claims about the compiler and interpreter                                 *)
(* The expected outputs below are written from the specification's words,    *)
(* independently of the operators that model template.c.                     *)

\* the source of the top-level template and the fields of the context
MainSource == resolver[Main].s

Field(name) == GetField(ctx[1], name)

Finished == pc = "done"

Failed == pc = "error"

IsPrefix(a, b) == Len(a) <= Len(b) /\ SubSeq(b, 1, Len(a)) = a

\* s starts with pat
StartsWith(s, pat) == Len(s) >= Len(pat) /\ SubSeq(s, 1, Len(pat)) = pat

Occurs(pat, s) == \E i \in 1..(Len(s) - Len(pat) + 1) : SubSeq(s, i, i + Len(pat) - 1) = pat

RECURSIVE Concat(_)
Concat(ss) == IF ss = <<>> THEN <<>> ELSE Head(ss) \o Concat(Tail(ss))

\* s with every byte replaced by its image under tbl
Escaped(tbl, s) == Concat([i \in 1..Len(s) |-> tbl[s[i]]])

Bytes == 1..255

XmlEscape ==
    [b \in Bytes |->
        CASE b = 38 -> <<38, 97, 109, 112, 59>>
          [] b = 60 -> <<38, 108, 116, 59>>
          [] b = 62 -> <<38, 103, 116, 59>>
          [] OTHER -> <<b>>]

UpperHex(d) == IF d < 10 THEN 48 + d ELSE 55 + d

Unreserved == (48..57) \cup (65..90) \cup (97..122) \cup {45, 46, 95, 126}

UrlEscape ==
    [b \in Bytes |->
        IF b \in Unreserved THEN <<b>> ELSE <<37, UpperHex(b \div 16), UpperHex(b % 16)>>]

JsEscape ==
    [b \in Bytes |->
        CASE b = 8 -> <<92, 98>>
          [] b = 9 -> <<92, 116>>
          [] b = 10 -> <<92, 110>>
          [] b = 11 -> <<92, 118>>
          [] b = 12 -> <<92, 102>>
          [] b = 13 -> <<92, 114>>
          [] b = 34 -> <<92, 34>>
          [] b = 39 -> <<92, 39>>
          [] b = 92 -> <<92, 92>>
          [] OTHER -> <<b>>]

Identity == [b \in Bytes |-> <<b>>]

\* the template is the single substitution $fb{x}
IsSub(fb) == DOMAIN resolver = {Main} /\ MainSource = T_sub(fb, NameX)

\* the flags blocks fb of the inputs with which the source can be $fb{x}: the
\* bytes between '$' and "{x}", if they are such a block
SourceFlagBlocks ==
    IF DOMAIN resolver = {Main} /\ Len(MainSource) >= 4
    THEN {SubSeq(MainSource, 2, Len(MainSource) - 3)} \cap FlagBlocks
    ELSE {}

HasFlag(fb, c) == \E i \in 1..Len(fb) : fb[i] = c

FlagX == 120

FlagU == 117

FlagJ == 106

FlagN == 110

\* the flags block selects none of x, u, j
NoEscapeFlag(fb) == ~HasFlag(fb, FlagX) /\ ~HasFlag(fb, FlagU) /\ ~HasFlag(fb, FlagJ)

ParenNil == <<40, 110, 105, 108, 41>>

\* ---------------------------------------------------------------------------
\* if chains

Truthy(v) == ~(v.ty = "nil") /\ ~(v.ty = "boolean" /\ v.n = 0)

FirstTruthy(n) == {i \in 1..n : Truthy(Field(CondName(i)))
                                  /\ \A j \in 1..(i - 1) : ~Truthy(Field(CondName(j)))}

SelectedBody(n, has_else) ==
    IF FirstTruthy(n) # {} THEN BodyOf(CHOOSE i \in FirstTruthy(n) : TRUE)
    ELSE IF has_else THEN ElseBody
    ELSE <<>>

ChainOutput(n, has_else, tail) ==
    Prefix \o SelectedBody(n, has_else) \o (IF tail THEN Suffix ELSE <<>>)

IsChain(n, has_else, tail) == resolver = OneFile(IfChainSource(n, has_else, tail))

\* C3: for every chain of n branches with or without else, and every
\* assignment of nil/false/true/0 to its conditions, the render never fails,
\* what it has written is at every moment a prefix of: the text before the
\* chain, the body of the first branch whose condition is truthy (else the
\* else body if there is one, else nothing), the text after the closing tag;
\* and the finished render has written exactly that. So at most one body of
\* the chain is rendered and execution continues behind the closing tag.
C3_IfChainSelectsFirstTruthy ==
    \A n \in 1..MaxBranches, has_else \in BOOLEAN, tail \in BOOLEAN :
        IsChain(n, has_else, tail) =>
            /\ ~Failed
            /\ IsPrefix(out, ChainOutput(n, has_else, tail))
            /\ Finished => out = ChainOutput(n, has_else, tail)

\* a chain if/elseif/else whose first condition is false and whose second is
\* the number 0 (truthy in Lua) has rendered the second body only
C3_Witness ==
    /\ IsChain(2, TRUE, TRUE)
    /\ Field(CondName(1)) = Bool(FALSE)
    /\ Field(CondName(2)) = Num(0)
    /\ Finished
    /\ out = Prefix \o BodyOf(2) \o Suffix

\* ---------------------------------------------------------------------------
\* for loops

IsFor(nn, nested) == resolver = OneFile(ForSource(nn, nested))

ItemsOf(name) == Field(name).s

\* what one pass of the inner loop over u writes
InnerOutput == Concat([j \in 1..Len(ItemsOf(NameU)) |-> <<ItemsOf(NameU)[j]>>])

\* what the i-th pass of the body writes: k, then v, then the inner loop, ";"
PassOutput(nn, nested, i) ==
    <<48 + i>> \o (IF nn = 1 THEN <<>> ELSE <<ItemsOf(NameT)[i]>>)
        \o (IF nested THEN InnerOutput ELSE <<>>) \o <<59>>

ForOutput(nn, nested) ==
    Prefix \o Concat([i \in 1..Len(ItemsOf(NameT)) |-> PassOutput(nn, nested, i)]) \o Suffix

\* the calls of the iterator of the loop over t
CallsOver(name) == SelectSeq(calls, LAMBDA c : c.s = Field(name))

\* C4: a loop over the K items of ipairs(t) never fails and renders its body
\* K times (zero times for K = 0), the i-th pass with the first name bound to
\* i and the second to the i-th item; the iterator is called with control
\* value 0, 1, .., K, each the first value of the item before; the text behind
\* the closing tag follows the last pass; an inner loop runs in full in every
\* pass.
C4_ForRendersEachItem ==
    \A nn \in 1..2, nested \in BOOLEAN :
        IsFor(nn, nested) =>
            /\ ~Failed
            /\ IsPrefix(out, ForOutput(nn, nested))
            /\ \A i \in 1..Len(CallsOver(NameT)) :
                   /\ i <= Len(ItemsOf(NameT)) + 1
                   /\ CallsOver(NameT)[i].c = Num(i - 1)
            /\ Finished =>
                   /\ out = ForOutput(nn, nested)
                   /\ Len(CallsOver(NameT)) = Len(ItemsOf(NameT)) + 1
                   /\ Len(ItemsOf(NameT)) > 0 =>
                          /\ Field(NameK) = Num(Len(ItemsOf(NameT)))
                          /\ nn = 2 =>
                                 Field(NameV) = Str(<<ItemsOf(NameT)[Len(ItemsOf(NameT))]>>)

\* a loop with two names over MaxItems items has finished
C4_Witness ==
    /\ IsFor(2, FALSE)
    /\ Len(ItemsOf(NameT)) = MaxItems
    /\ Finished
    /\ Len(out) = 2 + 3 * MaxItems
    /\ Len(CallsOver(NameT)) = MaxItems + 1


\* ---------------------------------------------------------------------------
\* raw text

\* no element opener, no substitution opener, no "$$"
RawOnly(s) ==
    /\ ~Occurs(<<60, 108, 58>>, s)
    /\ ~Occurs(<<60, 47, 108, 58>>, s)
    /\ ~Occurs(<<36, 123>>, s)
    /\ ~Occurs(<<36, 91>>, s)
    /\ ~Occurs(<<36, 36>>, s)

\* C5: a template whose source holds raw text only compiles, and the finished
\* render has written the source byte for byte; while it runs it has written
\* a prefix of the source.
C5_RawRoundTrip ==
    (DOMAIN resolver = {Main} /\ RawOnly(MainSource)) =>
        /\ ~Failed
        /\ IsPrefix(out, MainSource)
        /\ Finished => out = MainSource

\* the raw text "<l$" (a '<' that opens no element, a '$' that opens no
\* substitution) has been rendered
C5_Witness ==
    /\ MainSource = <<60, 108, 36>>
    /\ Finished
    /\ out = <<60, 108, 36>>

\* ---------------------------------------------------------------------------
\* substitutions

\* the text of the value v of a substitution, before it is encoded
RECURSIVE DecimalText(_)
DecimalText(n) ==
    IF n < 0 THEN <<45>> \o DecimalText(0 - n)
    ELSE IF n <= 9 THEN <<48 + n>>
    ELSE DecimalText(n \div 10) \o <<48 + (n % 10)>>

ParenType(v) == <<40>> \o TypeName[v.ty] \o <<41>>

\* the encoder a flags block selects in the code: XML if the block is absent
\* or holds x, URL for u, JavaScript for j, none for a block without x, u, j
SelectedEscape(fb) ==
    IF fb = <<>> \/ HasFlag(fb, FlagX) THEN XmlEscape
    ELSE IF HasFlag(fb, FlagU) THEN UrlEscape
    ELSE IF HasFlag(fb, FlagJ) THEN JsEscape
    ELSE Identity

\* the URL encoder reads no byte as a negative char
UrlDefined(fb, s) == ~(HasFlag(fb, FlagU) /\ char_signed /\ HasHigh(s))

\* C6 as stated: a substitution whose flags select none of x, u, j (block
\* absent, empty, or holding n only) writes its text XML-encoded.
C6_XmlWhenNoEscapeFlag ==
    \A fb \in SourceFlagBlocks :
        (IsSub(fb) /\ NoEscapeFlag(fb) /\ Finished /\ Field(NameX).ty = "string") =>
            out = Escaped(XmlEscape, Field(NameX).s)

\* C6, amended: a substitution with a string value writes it through the XML
\* encoder if it has no flags block or the block holds x, through the URL
\* encoder for u, through the JavaScript encoder for j, and verbatim
\* (through no encoder) if a flags block is present and holds none of x, u,
\* j, as [] and [n] do. (Bytes from 0x80 on under the URL encoder of a build
\* with signed char are the subject of C8.)
C6_EncoderSelection ==
    \A fb \in SourceFlagBlocks :
        (IsSub(fb) /\ Finished /\ Field(NameX).ty = "string" /\ UrlDefined(fb, Field(NameX).s)) =>
            out = Escaped(SelectedEscape(fb), Field(NameX).s)

\* $[n]{x} has written the string "a<" verbatim
C6_Witness ==
    /\ IsSub(<<91, 110, 93>>)
    /\ Field(NameX) = Str(<<97, 60>>)
    /\ Finished
    /\ out = <<97, 60>>

\* C7: a substitution that selects the XML encoder (no flags block, or a
\* block with x) writes, for every string, "&amp;" for each '&', "&lt;" for
\* each '<', "&gt;" for each '>' and every other byte as it is, in the order
\* of the input; what it has written holds no '<' and no '>'.
C7_XmlEncoder ==
    \A fb \in SourceFlagBlocks :
        (IsSub(fb) /\ (fb = <<>> \/ HasFlag(fb, FlagX)) /\ Field(NameX).ty = "string") =>
            /\ (fb = <<>> \/ fb = <<91, 120, 93>>) => ~Failed
            /\ Finished =>
                   /\ out = Escaped(XmlEscape, Field(NameX).s)
                   /\ \A i \in 1..Len(out) : out[i] # 60 /\ out[i] # 62

\* $[x]{x} has written "&gt;&amp;" for the string ">&"
C7_Witness ==
    /\ IsSub(<<91, 120, 93>>)
    /\ Field(NameX) = Str(<<62, 38>>)
    /\ Finished
    /\ out = <<38, 103, 116, 59, 38, 97, 109, 112, 59>>

\* C8 as stated: the URL encoder writes every byte 1..255 that is not an
\* ASCII letter or digit or one of - . _ ~ as '%' and the two uppercase
\* hexadecimal digits of the byte, and those bytes as they are.
C8_UrlEncoder ==
    \A fb \in SourceFlagBlocks :
        (IsSub(fb) /\ HasFlag(fb, FlagU) /\ Finished /\ Field(NameX).ty = "string") =>
            out = Escaped(UrlEscape, Field(NameX).s)

\* C9 as stated: a nil value is written as "(nil)" without the flag n and as
\* the empty string with it, whichever escaping flag is set.
C9_NilText ==
    \A fb \in SourceFlagBlocks :
        (IsSub(fb) /\ Finished /\ Field(NameX).ty = "nil") =>
            out = (IF HasFlag(fb, FlagN) THEN <<>> ELSE ParenNil)

\* C9, amended: the text of a nil value is "(nil)" without the flag n and
\* empty with it; the text goes through the selected encoder like any other,
\* so that it is written as "(nil)" with x, j, no flags block or no escaping
\* flag, and as "%28nil%29" with u; with n nothing is written under every
\* escaping flag.
C9_NilTextEncoded ==
    \A fb \in SourceFlagBlocks :
        (IsSub(fb) /\ Finished /\ Field(NameX).ty = "nil") =>
            /\ HasFlag(fb, FlagN) => out = <<>>
            /\ (~HasFlag(fb, FlagN) /\ ~HasFlag(fb, FlagU)) => out = ParenNil
            /\ (~HasFlag(fb, FlagN) /\ HasFlag(fb, FlagU)) =>
                   out = <<37, 50, 56, 110, 105, 108, 37, 50, 57>>

\* $[jn]{x} has written nothing for a nil x
C9_Witness ==
    /\ IsSub(<<91, 106, 110, 93>>)
    /\ Field(NameX).ty = "nil"
    /\ Finished
    /\ out = <<>>

\* C10 as stated: only a string is written as its content; a value of every
\* other type but nil is written as "(" type name ")".
C10_OnlyStringsLiteral ==
    (IsSub(<<>>) /\ Finished /\ Field(NameX).ty # "nil") =>
        out = (IF Field(NameX).ty = "string" THEN Escaped(XmlEscape, Field(NameX).s)
               ELSE ParenType(Field(NameX)))

\* the text of a value that is not nil: the content of a string, the decimal
\* digits of a number, "(" type name ")" for every other type
ValueText(v) ==
    IF v.ty = "string" THEN v.s
    ELSE IF v.ty = "number" THEN DecimalText(v.n)
    ELSE ParenType(v)

\* C10, amended: a string is written as its content and a number as its
\* decimal text (lua_isstring holds for numbers); a value of every other type
\* but nil (boolean, table, function, ..) is written as "(" type name ")";
\* in each case through the encoder the flags select.
C10_StringsAndNumbersLiteral ==
    \A fb \in SourceFlagBlocks :
        (IsSub(fb) /\ Finished /\ Field(NameX).ty # "nil"
            /\ UrlDefined(fb, ValueText(Field(NameX)))) =>
            out = Escaped(SelectedEscape(fb), ValueText(Field(NameX)))

\* ${x} has written "42" for the number 42
C10_Witness ==
    /\ IsSub(<<>>)
    /\ Field(NameX) = Num(42)
    /\ Finished
    /\ out = <<52, 50>>


\* ---------------------------------------------------------------------------
\* include depth

DepthError == [msg |-> "template depth exceeds", n |-> TEMPLATE_MAX_DEPTH]

Quoted(name) == <<39>> \o name \o <<39>>

IncludesFrom(src, name) == src = Prefix \o T_include(Quoted(name)) \o Suffix

\* the top-level template includes itself, directly or through the second file
SelfIncluding ==
    /\ DOMAIN resolver = {Main, Incl}
    /\ \/ IncludesFrom(MainSource, Main)
       \/ /\ IncludesFrom(MainSource, Incl) \/ MainSource = Prefix \o T_include(NameX) \o Suffix
          /\ Field(NameX) = Str(Incl)
          /\ resolver[Incl].s = T_include(Quoted(Main))

DepthStep ==
    /\ (pc # "running" /\ pc' = "running") => Len(frames') = 1
    /\ (pc = "running" /\ pc' = "running") => Len(frames') <= Len(frames) + 1
    /\ (pc = "running" /\ Len(frames) > TEMPLATE_MAX_DEPTH /\ Top.i = -1) =>
           /\ pc' = "error"
           /\ err' = DepthError
           /\ UNCHANGED <<templates, registry, resolved, out, ctx, calls>>

\* C11: the top-level render starts with one activation and an include adds
\* one to the includer's; an activation at depth 9 or more never passes the
\* head of the render: the step that enters it ends the render with the depth
\* error and leaves cache, registry, resolver calls, output and context as
\* they are; so at most 8 activations that execute are ever nested, and a
\* template that includes itself, directly or through another, never
\* finishes and fails with the depth error only.
C11_DepthLimit ==
    /\ [](/\ Len(frames) <= TEMPLATE_MAX_DEPTH + 1
          /\ \A k \in 1..Len(frames) : frames[k].i >= 0 => k <= TEMPLATE_MAX_DEPTH
          /\ SelfIncluding => (~Finished /\ (Failed => err = DepthError)))
    /\ [][DepthStep]_vars

\* "m" includes "i" and "i" includes "m": the render has failed with the
\* depth error after "m" has written its "p" at the depths 1, 3, 5 and 7
C11_Witness ==
    /\ SelfIncluding
    /\ IncludesFrom(MainSource, Incl)
    /\ Failed
    /\ err = DepthError
    /\ out = <<112, 112, 112, 112>>

\* ---------------------------------------------------------------------------
\* block elements

\* the generated sequence of block elements the top-level source is made of
\* the elements of a source that is a sequence of the markups Tag[1..6],
\* read from left to right; a last item 0 if the source is none
RECURSIVE TagsIn(_)
TagsAfter(s, k) == <<k>> \o TagsIn(SubSeq(s, Len(Tag[k]) + 1, Len(s)))

TagsIn(s) ==
    IF s = <<>> THEN <<>>
    ELSE IF \E k \in 1..6 : StartsWith(s, Tag[k])
    THEN TagsAfter(s, CHOOSE k \in 1..6 : StartsWith(s, Tag[k]))
    ELSE <<0>>

TagsOfSource == TagsIn(MainSource)

IsTagSource ==
    /\ DOMAIN resolver = {Main}
    /\ \A i \in 1..Len(TagsOfSource) : TagsOfSource[i] # 0
    /\ Len(TagsOfSource) <= MaxTags \/ TagsOfSource \in LongTagSeqs

\* the open blocks after the elements toks[i..], from the open blocks st: a
\* sequence of "if" (no else yet), "else" (an if whose else was met) and
\* "for"; <<"bad">> if an element does not fit the innermost open block
RECURSIVE Nest(_, _, _)
Nest(toks, i, st) ==
    IF i > Len(toks) THEN st
    ELSE LET opened == IF st = <<>> THEN "none" ELSE st[Len(st)]
             rest == IF st = <<>> THEN <<>> ELSE SubSeq(st, 1, Len(st) - 1)
         IN  CASE toks[i] = 1 -> Nest(toks, i + 1, Append(st, "if"))
               [] toks[i] = 5 -> Nest(toks, i + 1, Append(st, "for"))
               [] toks[i] = 2 ->
                    IF opened = "if" THEN Nest(toks, i + 1, st) ELSE <<"bad">>
               [] toks[i] = 3 ->
                    IF opened = "if" THEN Nest(toks, i + 1, Append(rest, "else"))
                    ELSE <<"bad">>
               [] toks[i] = 4 ->
                    IF opened \in {"if", "else"} THEN Nest(toks, i + 1, rest) ELSE <<"bad">>
               [] toks[i] = 6 ->
                    IF opened = "for" THEN Nest(toks, i + 1, rest) ELSE <<"bad">>

OpenBlocks == Nest(TagsOfSource, 1, <<>>)

OpenError(k) == [msg |-> "open element(s) at end of template", n |-> k]

\* C12: for every sequence of if, elseif, else, /if, for and /for elements
\* in which each element fits the innermost open block, the template is
\* compiled (the render does not fail and executes it from the cache) if no block is
\* open at the end of the source; with k >= 1 blocks open the render fails
\* with the error of k open elements and nothing else, and the template never
\* enters the cache. A sequence with an element that does not fit is never
\* compiled either.
C12_OpenBlocksAtEnd ==
    IsTagSource =>
        /\ (OpenBlocks # <<"bad">> /\ Len(OpenBlocks) >= 1) =>
               /\ ~Finished
               /\ Main \notin DOMAIN templates
               /\ \A k \in 1..Len(frames) : frames[k].i = -1
               /\ Failed => err = OpenError(Len(OpenBlocks))
        /\ OpenBlocks = <<>> =>
               /\ ~Failed
               /\ (Len(frames) > 0 /\ Top.i >= 0) => Main \in DOMAIN templates
        /\ OpenBlocks = <<"bad">> => (~Finished /\ Main \notin DOMAIN templates)

\* <l:if> <l:for> <l:if> <l:for> without a closing tag has failed with the
\* error of 4 open elements
C12_Witness ==
    /\ IsTagSource
    /\ TagsOfSource = <<1, 5, 1, 5>>
    /\ Failed
    /\ err = OpenError(4)
    /\ Main \notin DOMAIN templates

\* the node types that carry a target, and the targets of a node list
TargetNodes == {"NT_JUMP", "NT_IF", "NT_FOR_NEXT"}

Targets(nodes) ==
    [k \in 1..Len(nodes) |-> IF nodes[k].type \in TargetNodes THEN nodes[k].next ELSE -2]

\* C13: in every template of the cache, compiled from whatever combination of
\* if, elseif, else and for elements with empty or non-empty bodies, every
\* Jump, If and ForNext node has a target that is not -1 and lies in 0..n, n
\* the number of nodes.
C13_TargetsResolved ==
    \A f \in DOMAIN templates :
        \A k \in 1..Len(templates[f].nodes) :
            templates[f].nodes[k].type \in TargetNodes =>
                /\ templates[f].nodes[k].next # -1
                /\ templates[f].nodes[k].next \in 0..Len(templates[f].nodes)

\* <l:if><l:for></l:for><l:elseif><l:else></l:if> with empty bodies is
\* compiled to If, ForInit, ForNext, Jump, Jump, If, Jump with the targets 5,
\* 4, 2, 7, 7, 7
C13_Witness ==
    /\ IsTagSource
    /\ TagsOfSource = <<1, 5, 6, 2, 3, 4>>
    /\ Main \in DOMAIN templates
    /\ Targets(templates[Main].nodes) = <<5, -2, 4, 2, 7, 7, 7>>

\* ---------------------------------------------------------------------------
\* a stream that fails

IsSink == resolver \in {c.files : c \in SinkCases}

SinkFlags == CHOOSE fl \in EncBlocks : MainSource = SinkSource(fl)

\* what the render of a sink input writes to a stream that takes every byte
SinkOutput ==
    IF DOMAIN resolver = {Main}
    THEN Prefix \o Escaped(SelectedEscape(SinkFlags), Field(NameX).s) \o Suffix
    ELSE Prefix \o (IF resolver[Incl].s = <<74>> THEN <<74>> ELSE Field(NameX).s) \o Suffix

WriteError == [msg |-> "error writing template", n |-> 0]

\* the stream refuses a write in this step: it has room for fewer bytes than
\* the write holds (room is -1 behind it)
WriteFails == pc = "running" /\ room >= 0 /\ room' = -1

SinkStep ==
    /\ WriteFails =>
           /\ pc' = "error"
           /\ err' = WriteError
           /\ frames' = <<>>
           /\ Len(out') = Len(out) + room
    /\ (pc = "error" /\ renders' = renders) => (out' = out /\ pc' = "error" /\ frames' = <<>>)

\* C17: for a raw text, a substitution under each encoder and an include,
\* written to a stream that refuses a write after 0..MaxRoom bytes: the step
\* in which a write fails, in a Raw or a Sub node, at depth 1 or 2, ends the
\* render with the write error and no activation is left; the render
\* executes no node and writes no byte behind it; what the stream holds is at
\* every moment a prefix of what the render writes to a stream that takes
\* every byte, a proper prefix if the render has failed and all of it if the
\* render has finished.
C17_WriteFailureAborts ==
    /\ [](IsSink =>
             /\ IsPrefix(out, SinkOutput)
             /\ Finished => out = SinkOutput
             /\ Failed => (err = WriteError /\ out # SinkOutput /\ Len(out) <= MaxRoom))
    /\ [][SinkStep]_vars

\* the include of "J" between "p" and "s" to a stream that takes one byte:
\* the write of the included template, at depth 2, has failed behind "p"
C17_Witness ==
    /\ IsSink
    /\ DOMAIN resolver = {Main, Incl}
    /\ resolver[Incl].s = <<74>>
    /\ Failed
    /\ err = WriteError
    /\ out = Prefix
    /\ room = -1


\* ---------------------------------------------------------------------------
\* the template cache

\* the next step enters the template on top: it is at a depth the render
\* allows and has not passed the head of the render
Entering == pc = "running" /\ Len(frames) \in 1..TEMPLATE_MAX_DEPTH /\ Top.i = -1

Cached(name) == name \in DOMAIN templates

\* the names of the cache specification that compile
Compiling == {Main, Incl}

CacheStep ==
    /\ (Entering /\ Cached(Top.filename)) =>
           /\ resolved' = resolved
           /\ pc' = "running"
           /\ frames'[Len(frames)].i = 0
           /\ Cached(Top.filename)'
           /\ templates'[Top.filename].nodes = templates[Top.filename].nodes
    /\ (Entering /\ ~Cached(Top.filename)) =>
           /\ resolved' = Append(resolved, Top.filename)
           /\ Top.filename \in Compiling => Cached(Top.filename)'
    /\ resolved' # resolved => (Entering /\ ~Cached(Top.filename))
    /\ (\E f \in DOMAIN templates : ~Cached(f)') =>
           /\ pc # "running"
           /\ templates' = EmptyMap
           /\ resolved' = resolved

\* C14: in every run of renders (of three names, with two contexts) and
\* clears: the step that enters a template, top-level or included, calls the
\* resolver if and only if the name is not in the cache, and then a name
\* that compiles is in the cache; a name in the cache is entered with its
\* cached nodes and no call of the resolver; a name leaves the cache only by
\* a clear between renders, which empties the cache, so that the next use of
\* every name is a miss again.
C14_ResolvedOnMissOnly == [][CacheStep]_vars

\* "m" and the "i" it includes were resolved by the first render, by no
\* second render, and again by a render behind a clear
C14_Witness ==
    /\ renders = 3
    /\ Finished
    /\ resolved = <<Main, Incl, Main, Incl>>
    /\ DOMAIN templates = {Main, Incl}

\* the names that do not compile: the source of "b" has an open if, the
\* resolver knows no "q"
Failing == {Bad, Missing}

FailedCompileStep ==
    (Entering /\ Top.filename \in Failing) =>
        /\ pc' = "error"
        /\ err' = (IF Top.filename = Bad THEN OpenError(1)
                   ELSE [msg |-> "error resolving template", n |-> 0])
        /\ templates' = templates
        /\ resolved' = Append(resolved, Top.filename)

\* C15: a name that does not resolve or does not compile is never in the
\* cache; every step that enters it, top-level or included, first or
\* repeated, calls the resolver, ends the render with the error of the
\* compilation and leaves the cache as it was.
C15_FailedCompileNotCached ==
    /\ [](\A f \in Failing : ~Cached(f))
    /\ [][FailedCompileStep]_vars

\* "b" has failed to compile twice, with "i" in the cache before and after
C15_Witness ==
    /\ Failed
    /\ err = OpenError(1)
    /\ resolved = <<Incl, Bad, Bad>>
    /\ DOMAIN templates = {Incl}

\* the node types that carry an expression
Carrying == {"NT_IF", "NT_FOR_INIT", "NT_SET", "NT_INCLUDE", "NT_SUB"}

\* the expressions of a template: the references of its carrying nodes
Expressions(tpl) ==
    {tpl.nodes[k].ref : k \in {j \in 1..Len(tpl.nodes) : tpl.nodes[j].type \in Carrying}}

\* the render is about to evaluate the expression of the node it is at
AtExpression ==
    /\ pc = "running"
    /\ Len(frames) > 0
    /\ Top.i >= 0
    /\ Top.i < Len(CurTemplate.nodes)
    /\ CurNode.type \in Carrying

BindingStep ==
    /\ (pc = "running" /\ pc' = "running") => L'[2] = L[2]
    /\ (Entering /\ Cached(Top.filename) /\ templates[Top.filename].env = Context) =>
           (registry' = registry /\ templates' = templates)
    /\ (Entering /\ pc' = "running") =>
           /\ templates'[Top.filename].env = Context
           /\ \A r \in Expressions(templates'[Top.filename]) : registry'[r].upv = Context
    /\ ctx' # ctx =>
           /\ pc = "running"
           /\ \A k \in DOMAIN ctx : k # Context => ctx'[k] = ctx[k]

\* C16: in every run of renders with two contexts, includes and clears: the
\* context of a render stays the one it was called with; every expression
\* the render is about to evaluate has that context as its environment, and
\* a step changes the fields of that context only; the step that enters a
\* template bound to the context of the render changes no binding, every
\* other entering step leaves the expressions of all If, ForInit, Set,
\* Include and Sub nodes of the template bound to the context of the render.
C16_BoundToRenderContext ==
    /\ [](AtExpression => registry[CurNode.ref].upv = Context)
    /\ [][BindingStep]_vars

\* a render with context 2 is at the Include node of "m", which it has
\* rebound, while "i" is still bound to context 1
C16_Witness ==
    /\ AtNode("NT_INCLUDE")
    /\ Top.filename = Main
    /\ Context = 2
    /\ templates[Main].env = 2
    /\ Cached(Incl)
    /\ templates[Incl].env = 1
    /\ registry[CurNode.ref].upv = 2


\* ---------------------------------------------------------------------------
\* the escape of '$'

Dollar == 36

\* s read from left to right with every pair "$$" replaced by one '$'
RECURSIVE Collapsed(_)
Collapsed(s) ==
    IF s = <<>> THEN <<>>
    ELSE IF Len(s) >= 2 /\ s[1] = Dollar /\ s[2] = Dollar
    THEN <<Dollar>> \o Collapsed(SubSeq(s, 3, Len(s)))
    ELSE <<s[1]>> \o Collapsed(Tail(s))

\* read from left to right, "$$" taken as a pair, s holds an element opener
\* or a substitution opener
RECURSIVE OpensMarkup(_)
OpensMarkup(s) ==
    IF s = <<>> THEN FALSE
    ELSE IF StartsWith(s, <<Dollar, Dollar>>) THEN OpensMarkup(SubSeq(s, 3, Len(s)))
    ELSE IF \/ StartsWith(s, <<Dollar, 123>>) \/ StartsWith(s, <<Dollar, 91>>)
            \/ StartsWith(s, <<60, 108, 58>>) \/ StartsWith(s, <<60, 47, 108, 58>>)
    THEN TRUE
    ELSE OpensMarkup(Tail(s))

HasPair(s) == Occurs(<<Dollar, Dollar>>, s)

\* C20: a template with "$$" in its source and no opener outside the pairs
\* compiles and renders its source with one '$' for every pair "$$", read
\* from left to right, so that "$${" and "$$[" are written as "${" and "$[";
\* the text behind a pair is lexed as usual: "$$${x}" writes '$' and the
\* value of x.
C20_DollarEscape ==
    /\ (DOMAIN resolver = {Main} /\ HasPair(MainSource) /\ ~OpensMarkup(MainSource)) =>
           /\ ~Failed
           /\ IsPrefix(out, Collapsed(MainSource))
           /\ Finished => out = Collapsed(MainSource)
    /\ (DOMAIN resolver = {Main} /\ MainSource = <<Dollar, Dollar>> \o T_sub(<<>>, NameX)
            /\ Field(NameX).ty = "string") =>
           /\ ~Failed
           /\ Finished => out = <<Dollar>> \o Escaped(XmlEscape, Field(NameX).s)

\* "$$[n]{x}" has been written as "$[n]{x}"
C20_Witness ==
    /\ MainSource = <<Dollar, Dollar, 91, 110, 93, 123, 120, 125>>
    /\ Finished
    /\ out = <<Dollar, 91, 110, 93, 123, 120, 125>>


-----------------------------------------------------------------------------
(* Claims about insertion and the entry count of the associative array      *)

\* the slot at the 1-based position p of the probe chain of hash
ChainSlot(tb, hash, p) ==
    (HMod(hash, tb.alloc) + (p - 1) * (HMod(hash, tb.alloc - 2) + 1)) % tb.alloc

\* the positions of a slot on the probe chain of hash
ChainPos(tb, hash, slot) == {p \in 1..tb.alloc : ChainSlot(tb, hash, p) = slot}

\* the position of the first slot of the chain that is not set: where naive
\* open addressing puts the key
NaivePos(tb, hash) ==
    {p \in 1..tb.alloc :
        /\ tb.entries[ChainSlot(tb, hash, p)].state # TES_SET
        /\ \A r \in 1..(p - 1) : tb.entries[ChainSlot(tb, hash, r)].state = TES_SET}

\* the keys table_set calls table_insert for, and the table it calls it on:
\* the table as it is, or rehashed if count has reached load
NewKeys == {k \in Keys : OwnSlot(t, k, FALSE) = -1}

InsertTable == IF t.count = t.load THEN table_rehash(t, t.alloc + 1, TRUE).t ELSE t

\* the positions at which ins, the result of table_insert, places the key
PlacedAt(tb, hash, ins) == ChainPos(tb, hash, ins.entry)

PlacedWithin(tb, hash, ins) ==
    ~ins.hang =>
        /\ NaivePos(tb, hash) = {ins.len_worst}
        /\ PlacedAt(tb, hash, ins) # {}
        /\ \A p \in PlacedAt(tb, hash, ins) : p <= ins.len_worst

\* C18: in every reachable table state, for every key that is not in the
\* table, table_insert returns a slot whose 1-based position on the key's
\* probe chain is at most len_worst, the position of the first slot of that
\* chain that is not set.
C18_InsertNoWorseThanNaive ==
    \A tb \in {InsertTable} :
        \A k \in NewKeys :
            \A ins \in {table_insert(tb, table_hash(t, k))} :
                PlacedWithin(tb, table_hash(t, k), ins)

\* a new key whose chain starts with two set slots (len_worst >= 3) is placed
\* before the naive position, the entry in its way having been moved
C18_Witness ==
    \E k \in NewKeys :
        /\ ~table_insert(InsertTable, table_hash(t, k)).hang
        /\ table_insert(InsertTable, table_hash(t, k)).len_worst >= 3
        /\ table_insert(InsertTable, table_hash(t, k)).scan.old # -1
        /\ \A p \in PlacedAt(InsertTable, table_hash(t, k),
                             table_insert(InsertTable, table_hash(t, k))) :
               p < table_insert(InsertTable, table_hash(t, k)).len_worst

\* C19: after every completed table_create, table_set and table_clear of a
\* run without allocation failure (and without undefined behaviour), count
\* equals the number of entries in state set.
C19_CountIsNumberOfSet ==
    (fails = 0 /\ ~ub /\ ~ret.hang) => t.count = NumSet(t)


\* ---------------------------------------------------------------------------
\* flags of a substitution

\* the letters between '[' and ']'
Letters(fb) == SubSeq(fb, 2, Len(fb) - 1)

EscapeLetters == {FlagX, FlagU, FlagJ}

\* the positions of the escape letters of a block
EscapePositions(fb) == {i \in 1..Len(Letters(fb)) : Letters(fb)[i] \in EscapeLetters}

HasOtherLetter(fb) ==
    \E i \in 1..Len(Letters(fb)) : Letters(fb)[i] \notin EscapeLetters \cup {FlagN}

\* the flags of the substitution nodes of the compiled top-level template
SubNodeFlags ==
    {templates[Main].nodes[k].flags :
        k \in {j \in 1..Len(templates[Main].nodes) : templates[Main].nodes[j].type = "NT_SUB"}}

\* the escape choice a compiled flags value stands for: a letter, 0 for none
EscapeChoice(value) ==
    CASE value % (TEMPLATE_FESC + 1) = TEMPLATE_FESCXML -> FlagX
      [] value % (TEMPLATE_FESC + 1) = TEMPLATE_FESCURL -> FlagU
      [] value % (TEMPLATE_FESC + 1) = TEMPLATE_FESCJS -> FlagJ
      [] OTHER -> 0

\* the render has passed the compilation of the top-level template
Compiled == pc \in {"done", "error"} \/ (pc = "running" /\ frames[1].i >= 0)

\* C21: for every flags block, compilation fails with a parse error if and
\* only if the block holds two or more escape letters of x, u, j (the same
\* letter twice included) or a character that is none of x, u, j, n;
\* otherwise the render does not fail, the compiled template (as long as the
\* cache holds it) has the one escape letter present as its escape choice
\* (none if there is none), and nil suppression set exactly if n occurs,
\* however often.
C21_FlagsExclusive ==
    \A fb \in SourceFlagBlocks \ {<<>>} :
        (IsSub(fb) /\ Compiled) =>
            IF Cardinality(EscapePositions(fb)) >= 2 \/ HasOtherLetter(fb)
            THEN /\ Failed
                 /\ err.msg \in {"bad flags: multiple escacpes", "bad flags: unknown character"}
                 /\ Main \notin DOMAIN templates
            ELSE /\ ~Failed
                 /\ pc = "running" => Main \in DOMAIN templates
                 /\ Main \in DOMAIN templates =>
                        /\ SubNodeFlags # {}
                        /\ \A value \in SubNodeFlags :
                               /\ EscapeChoice(value) =
                                      (IF EscapePositions(fb) = {} THEN 0
                                       ELSE Letters(fb)[CHOOSE i \in EscapePositions(fb) : TRUE])
                               /\ (value >= TEMPLATE_FSUPNIL) <=> HasFlag(fb, FlagN)

\* $[njnn]{x} has compiled to the JavaScript choice with nil suppression and
\* has written nothing for a nil x
C21_Witness ==
    /\ IsSub(<<91, 110, 106, 110, 110, 93>>)
    /\ Field(NameX).ty = "nil"
    /\ Finished
    /\ Main \in DOMAIN templates
    /\ SubNodeFlags = {TEMPLATE_FSUPNIL + TEMPLATE_FESCJS}
    /\ out = <<>>


\* ---------------------------------------------------------------------------
\* the end of a substitution

\* position of the first '}' from i on that is outside every string literal
\* and closes the brace that opened the substitution, 0 if there is none;
\* depth counts the open braces, q is the quote of the literal i is in (0
\* outside); inside a literal a backslash escapes the byte that follows it
RECURSIVE ClosingBrace(_, _, _, _)
ClosingBrace(s, i, depth, q) ==
    IF i > Len(s) THEN 0
    ELSE IF q # 0
    THEN IF s[i] = 92 THEN ClosingBrace(s, i + 2, depth, q)
         ELSE ClosingBrace(s, i + 1, depth, IF s[i] = q THEN 0 ELSE q)
    ELSE IF s[i] = 34 \/ s[i] = 39 THEN ClosingBrace(s, i + 1, depth, s[i])
    ELSE IF s[i] = 123 THEN ClosingBrace(s, i + 1, depth + 1, 0)
    ELSE IF s[i] = 125 /\ depth = 1 THEN i
    ELSE ClosingBrace(s, i + 1, IF s[i] = 125 THEN depth - 1 ELSE depth, 0)

\* what Lua makes of the expression text e in an empty context
ValueOf(e) == LuaEval(luaL_loadbufferx(e).code, EmptyMap, 1).vals[1]

\* C22: a substitution "${" e "}" followed by "z", whose expression e holds
\* well-formed string literals, ends at the '}' behind e, the first one
\* outside every literal at depth zero: the template compiles and the
\* finished render has written the text of the value of e and then "z". A
\* substitution "${" e that no such '}' closes is a parse error.
C22_ScanEndsAtClosingBrace ==
    /\ \A e \in ScanExprs :
           (resolver = OneFile(ScanSource(e))
               /\ ClosingBrace(ScanSource(e), 3, 1, 0) = Len(e) + 3) =>
               /\ ~Failed
               /\ Finished => out = Escaped(XmlEscape, ValueText(ValueOf(e))) \o <<122>>
    /\ \A e \in OpenExprs :
           (resolver = OneFile(OpenSource(e)) /\ ClosingBrace(OpenSource(e), 3, 1, 0) = 0
               /\ Compiled) =>
               /\ Failed
               /\ err.msg = "'}' expected"


\* ---------------------------------------------------------------------------
\* rehash

\* table_set(k, v) in the state t when the allocation of the rehash fails
FailedRehashSet(k, v, strdup_ok) == table_set(t, k, v, FALSE, FALSE, strdup_ok)

\* a step of table_set that returned -1 on a table that does not copy its
\* keys: the one allocation that can have failed is that of the rehash
FailedRehashStep == t.count = t.load /\ ~t.dup /\ ret'.res = -1

\* C23: in every reachable state whose count has reached the load threshold,
\* table_set of a new key with a failing allocation of the rehash returns -1
\* and a table equal to the one before in capacity, load threshold, count
\* and every slot, in which every key is looked up with the same result as
\* before; and every such step of a run leaves the table and the last
\* values set as they were.
C23_FailedRehashKeepsTable ==
    /\ []((t.count = t.load /\ ~ub /\ ~ret.hang) =>
             \A k \in NewKeys, v \in Vals, strdup_ok \in BOOLEAN :
                 /\ FailedRehashSet(k, v, strdup_ok).res = -1
                 /\ FailedRehashSet(k, v, strdup_ok).t = t
                 /\ \A k2 \in Keys :
                        table_get(FailedRehashSet(k, v, strdup_ok).t, k2, FALSE)
                            = table_get(t, k2, FALSE))
    /\ [][FailedRehashStep => (t' = t /\ shadow' = shadow)]_vars

\* the rehash for a fourth key has failed on a table of capacity 5 with
\* three entries, which are still there
C23_Witness ==
    /\ ret.res = -1
    /\ fails = 1
    /\ ~t.dup
    /\ t.alloc = 5
    /\ t.count = t.load
    /\ NumSet(t) = 3
    /\ Cardinality({k \in Keys : shadow[Canon(t, k)] > 0
                                  /\ table_get(t, k, FALSE) = shadow[Canon(t, k)]}) = 3

\* ---------------------------------------------------------------------------
\* relocation

\* the candidate table_insert has taken: the last one the second walk found
Taken(ins) == ins.scan.cands[Len(ins.scan.cands)]

Relocates(ins) == ~ins.hang /\ ins.scan.old # -1

\* table_insert for the new key k, on the table table_set calls it on
InsertOf(k) == table_insert(InsertTable, table_hash(t, k))

\* C24 as stated: the candidate taken has len + len_move < len_worst - 1.
C24_StrictBelowWorstMinusOne ==
    \A k \in NewKeys :
        Relocates(InsertOf(k)) =>
            Taken(InsertOf(k)).len + Taken(InsertOf(k)).len_move < InsertOf(k).len_worst - 1

\* C24, amended: whenever table_insert relocates the entry found at chain
\* position len to a free slot len_move steps along that entry's own chain,
\* the entry moved is the candidate recorded last, its target is not set,
\* and len + len_move <= len_worst - 1: the relocation saves at least one
\* probe over the worst case, and a candidate with len + len_move =
\* len_worst is never taken.
C24_BelowWorst ==
    \A k \in NewKeys :
        \A ins \in {InsertOf(k)} :
            Relocates(ins) =>
                /\ Taken(ins).old = ins.scan.old
                /\ Taken(ins).new = ins.scan.new
                /\ InsertTable.entries[Taken(ins).new].state # TES_SET
                /\ Taken(ins).len + Taken(ins).len_move <= ins.len_worst - 1

\* a relocation with len + len_move = len_worst - 1 is about to be made
C24_Witness ==
    \E k \in NewKeys :
        /\ Relocates(InsertOf(k))
        /\ Taken(InsertOf(k)).len + Taken(InsertOf(k)).len_move = InsertOf(k).len_worst - 1

\* a step of table_set that has inserted a new key without a rehash
InsertedStep ==
    /\ t'.alloc = t.alloc
    /\ t'.count = t.count + 1
    /\ \E i \in Slots(t) : t'.entries[i].state = TES_SET /\ t'.entries[i] # t.entries[i]

ChangedSlots == {i \in Slots(t) : t'.entries[i] # t.entries[i]}

\* slot c has received a key that no set entry had, and every other changed
\* slot was not set and holds what slot c held, a set entry
OneRelocation(c) ==
    /\ t'.entries[c].state = TES_SET
    /\ \A i \in Slots(t) : t.entries[i].state = TES_SET => t.entries[i].key # t'.entries[c].key
    /\ ChangedSlots = {c} => t.entries[c].state # TES_SET
    /\ \A r \in ChangedSlots \ {c} :
           /\ t.entries[r].state # TES_SET
           /\ t.entries[c].state = TES_SET
           /\ t'.entries[r] = t.entries[c]

\* C26: a step that inserts a new key without a rehash changes one slot or
\* two: the slot that receives the new key and, after a relocation, the one
\* slot, not set before, that receives the entry the first slot held, with
\* its key, value, hash and state; every other slot is as before.
C26_AtMostOneRelocation ==
    [][InsertedStep =>
           /\ Cardinality(ChangedSlots) \in {1, 2}
           /\ \E c \in ChangedSlots : OneRelocation(c)]_vars

\* "b", "d", "c" were set in a table of 3 slots that grew to 5: "c" has
\* taken slot 3, the primary slot of "d", and "d" was relocated to slot 0
C26_Witness ==
    /\ t.alloc = 5
    /\ t.count = 3
    /\ t.entries[3].key = <<99>> /\ t.entries[3].state = TES_SET
    /\ t.entries[0].key = <<100>> /\ t.entries[0].state = TES_SET
    /\ t.entries[4].key = <<98>> /\ t.entries[4].state = TES_SET
    /\ HMod(t.entries[0].hash, t.alloc) = 3
    /\ table_get(t, <<100>>, FALSE) = shadow[<<100>>]

\* ---------------------------------------------------------------------------
\* growth

\* the (key, value, hash) triples of the set slots
SetTriples(tb) ==
    {<<tb.entries[i].key, tb.entries[i].value, tb.entries[i].hash>> :
        i \in {j \in Slots(tb) : tb.entries[j].state = TES_SET}}

\* the value of the size_t count: a count below zero has wrapped around
CountValue(tb) == IF tb.count < 0 THEN SizeMax + (1 + tb.count) ELSE tb.count

\* a is the entry of the prime table that follows b
NextSize(a, b) ==
    /\ \E i \in 1..table_sizes_n : table_sizes[i] = a
    /\ a > b
    /\ \A i \in 1..table_sizes_n : ~(table_sizes[i] > b /\ table_sizes[i] < a)

\* a step that changes the capacity
GrowStep ==
    t'.alloc # t.alloc =>
        /\ t.count = t.load
        /\ ret'.res = -1 \/ t'.count = t.count + 1
        /\ NextSize(t'.alloc, t.alloc)
        /\ \A i \in Slots(t') : t'.entries[i].state # TES_DELETED
        /\ ret'.res = 0 =>
               \E new \in SetTriples(t') : SetTriples(t') \ {new} = SetTriples(t)

\* C27: the capacity changes only in a table_set of a new key while count
\* equals the load threshold, to the next entry of the prime table; the
\* table then holds the triples of the set slots it held and the new key,
\* and no tombstone; the capacity never decreases, and in every state
\* count <= load threshold < capacity.
C27_RehashGrowsAndKeeps ==
    /\ [][GrowStep /\ t'.alloc >= t.alloc]_vars
    /\ [](CountValue(t) <= t.load /\ t.load < t.alloc)

\* ---------------------------------------------------------------------------
\* long probe chains: a table created for up to MaxChainLoad entries, and
\* table_set of the keys ChainKeys with no allocation failing

MaxChainLoad == 5

IInit ==
    /\ \E load \in 0..MaxChainLoad : t = table_create(load)
    /\ shadow = [k \in CanonKeys |-> 0]
    /\ ret = [res |-> 0, hang |-> FALSE]
    /\ ub = FALSE
    /\ fails = 0
    /\ RenderIdle

INext ==
    \E key \in ChainKeys : TableSet(key, 1, FALSE, TRUE, TRUE) /\ UNCHANGED rvars

SpecInsert == IInit /\ [][INext]_vars

\* the keys table_set calls table_insert for in a table of long chains
NewChainKeys == {k \in ChainKeys : OwnSlot(t, k, FALSE) = -1}

\* the candidates the second walk of table_insert found, in the order found
Candidates(ins) == ins.scan.cands

\* the candidate with the smallest len_move, the first one found on ties
BestCandidate(cands) ==
    cands[CHOOSE i \in 1..Len(cands) :
              /\ \A j \in 1..Len(cands) : cands[i].len_move <= cands[j].len_move
              /\ \A j \in 1..(i - 1) : cands[j].len_move > cands[i].len_move]

\* C25: when the second walk of table_insert finds candidates, the entry
\* relocated is the candidate with the smallest len_move of all found, the
\* first one found on ties.
C25_BestCandidateWins ==
    \A k \in NewChainKeys :
        Relocates(InsertOf(k)) =>
            /\ InsertOf(k).scan.old = BestCandidate(Candidates(InsertOf(k))).old
            /\ InsertOf(k).scan.new = BestCandidate(Candidates(InsertOf(k))).new
            /\ InsertOf(k).entry = BestCandidate(Candidates(InsertOf(k))).old

\* ---------------------------------------------------------------------------
\* load threshold

\* C28 as stated: the load threshold is floor(capacity * 7 / 8).
C28_LoadIsFloorSevenEighths == t.load = (t.alloc * 7) \div 8

\* C28, amended: after table_create and after every rehash the load
\* threshold is capacity/2 + capacity/4 + capacity/8, each division an
\* integer division; this is floor(capacity * 7 / 8) or 1 or 2 less, and
\* less for the capacities 3, 5, 7, 11 and 13.
C28_LoadIsSumOfShifts ==
    /\ t.load = (t.alloc \div 2) + (t.alloc \div 4) + (t.alloc \div 8)
    /\ t.load <= (t.alloc * 7) \div 8
    /\ t.load >= ((t.alloc * 7) \div 8) - 2
    /\ t.alloc \in {3, 5, 7, 11, 13} => t.load < (t.alloc * 7) \div 8

\* a table of 11 slots with five entries has the load threshold 8, one below
\* floor(77 / 8) = 9
C28_Witness ==
    /\ t.alloc = 11
    /\ t.load = 8
    /\ t.count = 5
    /\ NumSet(t) = 5

\* ---------------------------------------------------------------------------
\* termination of the probe walks

\* the slots the probe sequence of hash visits in its first alloc steps
ProbeSlots(tb, hash) == {ChainSlot(tb, hash, p) : p \in 1..tb.alloc}

\* the sequence visits every slot once and is back at h after alloc steps
ProbeCoversTable(tb, hash) ==
    /\ ProbeSlots(tb, hash) = Slots(tb)
    /\ \A p1, p2 \in 1..tb.alloc :
           ChainSlot(tb, hash, p1) = ChainSlot(tb, hash, p2) => p1 = p2
    /\ (HMod(hash, tb.alloc) + tb.alloc * (HMod(hash, tb.alloc - 2) + 1)) % tb.alloc
           = HMod(hash, tb.alloc)

\* C29: in every reachable table state the probe sequence of every key
\* visits every slot once before it returns to its primary slot, table_find
\* returns for every key (a slot or NULL), at least one slot of the table
\* table_insert is called on is not set, the walks of table_insert end for
\* every new key, and no table_set has failed to return.
C29_ProbingTerminates ==
    /\ \A k \in Keys : ProbeCoversTable(t, table_hash(t, k))
    /\ \A k \in Keys : table_find(t, k, table_hash(t, k), FALSE) \in (Slots(t) \cup {-1})
    /\ \E i \in Slots(InsertTable) : InsertTable.entries[i].state # TES_SET
    /\ \A k \in NewKeys : ~table_insert(InsertTable, table_hash(t, k)).hang
    /\ ~ret.hang


\* ---------------------------------------------------------------------------
\* nesting of block elements

\* the first element of toks that does not fit the innermost open block; 0
\* if every element fits
FirstMisfit(toks) ==
    IF Nest(toks, 1, <<>>) # <<"bad">> THEN 0
    ELSE CHOOSE i \in 1..Len(toks) :
             /\ Nest(SubSeq(toks, 1, i), 1, <<>>) = <<"bad">>
             /\ Nest(SubSeq(toks, 1, i - 1), 1, <<>>) # <<"bad">>

\* the message of the parse error an element that does not fit is refused with
MisfitMessage(tok) ==
    CASE tok \in {2, 3} -> "no 'if' to continue"
      [] tok = 4 -> "no 'if' to close"
      [] tok = 6 -> "no 'for' to close"
      [] OTHER -> ""

NestingMessages == {"no 'if' to continue", "no 'if' to close", "no 'for' to close"}

\* the blocks open in front of the first misfit, innermost last
OpenBefore(toks) == Nest(SubSeq(toks, 1, FirstMisfit(toks) - 1), 1, <<>>)

\* C30: for every sequence of if, elseif, else, /if, for and /for elements:
\* if an elseif or else meets an innermost open block that is not an if
\* without else, or a /if one that is not an if, or a /for one that is not a
\* for (no block open included), compilation fails at the first such element
\* with the parse error of that element, and the template never enters the
\* cache; if every element fits, no element is refused: compilation raises
\* none of these errors.
C30_NestingEnforced ==
    IsTagSource =>
        /\ FirstMisfit(TagsOfSource) # 0 =>
               /\ Main \notin DOMAIN templates
               /\ Compiled =>
                      /\ Failed
                      /\ err = [msg |-> MisfitMessage(TagsOfSource[FirstMisfit(TagsOfSource)]),
                                n |-> 1]
        /\ FirstMisfit(TagsOfSource) = 0 =>
               /\ err.msg \notin NestingMessages
               /\ (Compiled /\ OpenBlocks = <<>>) => ~Failed

\* <l:if> <l:else> <l:elseif>: the elseif meets an if that has seen its else
\* and is refused
C30_Witness ==
    /\ IsTagSource
    /\ TagsOfSource = <<1, 3, 2>>
    /\ OpenBefore(TagsOfSource) = <<"else">>
    /\ Failed
    /\ err = [msg |-> "no 'if' to continue", n |-> 1]
    /\ Main \notin DOMAIN templates


\* ---------------------------------------------------------------------------
\* failure of the key copy

\* the set slots of tb that hold key
SetSlotsOf(tb, key) ==
    {i \in Slots(tb) : tb.entries[i].state = TES_SET /\ tb.entries[i].key = key}

\* count is the number of set slots, every set slot has a key that can be
\* read, and no key is in two set slots
Consistent(tb) ==
    /\ tb.count = NumSet(tb)
    /\ \A i \in Slots(tb) : tb.entries[i].state = TES_SET => ~Dangling(tb.entries[i])
    /\ \A i, j \in Slots(tb) :
           (tb.entries[i].state = TES_SET /\ tb.entries[j].state = TES_SET
               /\ tb.entries[i].key = tb.entries[j].key) => i = j

NoTombstone(tb) == \A i \in Slots(tb) : tb.entries[i].state # TES_DELETED

\* every key in a set slot of tb is looked up in tb2 with the value it has in
\* tb, whatever a read of a key that cannot be read yields
Retrievable(tb, tb2) ==
    \A i \in Slots(tb) :
        tb.entries[i].state = TES_SET =>
            \A stale \in BOOLEAN :
                /\ ~FindReadsDangling(tb2, tb.entries[i].key,
                                      table_hash(tb2, tb.entries[i].key), stale)
                /\ table_get(tb2, tb.entries[i].key, stale) = tb.entries[i].value

\* a table_set on a table that copies its keys has returned -1
FailedOnDup == t.dup /\ ~ub /\ ~ret.hang /\ ret'.res = -1

\* C31: a table_set that reports failure on a table with key copying enabled,
\* consistent before and without tombstones, leaves the table consistent:
\* count equals the number of set slots, no key occupies two set slots, every
\* set slot has a valid key, and every key set before is retrievable with its
\* value.
C31_KeyCopyFailureKeepsConsistent ==
    [][(FailedOnDup /\ Consistent(t) /\ NoTombstone(t)) =>
           (Consistent(t') /\ Retrievable(t, t'))]_vars


\* ---------------------------------------------------------------------------
\* termination of a render

\* a step of template_render_template: the C function runs on once entered
RenderStep ==
    \/ RenderTemplateEnter /\ UNCHANGED tfix
    \/ RenderTemplateReturn /\ UNCHANGED tfix
    \/ RenderJump /\ UNCHANGED tfix
    \/ RenderIf /\ UNCHANGED tfix
    \/ RenderForInit /\ UNCHANGED tfix
    \/ RenderForNext /\ UNCHANGED tfix
    \/ RenderSet /\ UNCHANGED tfix
    \/ RenderInclude /\ UNCHANGED tfix
    \/ RenderSub /\ UNCHANGED tfix
    \/ RenderRaw /\ UNCHANGED tfix

\* weak fairness of RenderStep, WF_vars(RenderStep), written out: a step of
\* the loop is enabled exactly while a render is running, so ENABLED
\* <<RenderStep>>_vars is pc = "running"
RenderFair == []<>(pc # "running") \/ []<><<RenderStep>>_vars

\* the interpreter and compiler, with a render in progress running on
SpecRenderLive == RInit /\ [][RNext]_vars /\ RenderFair

\* the Jump at index j closes a for: a ForNext node has the index behind it
\* as its end target
ClosesFor(nodes, j) ==
    \E m \in 0..(Len(nodes) - 1) :
        NodeAt(nodes, m).type = "NT_FOR_NEXT" /\ NodeAt(nodes, m).next = j + 1

\* every If and every Jump of an elseif or else points strictly forward; the
\* Jump of a for close points back to the ForNext node whose end target is
\* the index behind that Jump
TargetsDirected(nodes) ==
    \A j \in 0..(Len(nodes) - 1) :
        /\ NodeAt(nodes, j).type = "NT_IF" => NodeAt(nodes, j).next > j
        /\ (NodeAt(nodes, j).type = "NT_JUMP" /\ ~ClosesFor(nodes, j)) =>
               NodeAt(nodes, j).next > j
        /\ (NodeAt(nodes, j).type = "NT_JUMP" /\ ClosesFor(nodes, j)) =>
               /\ NodeAt(nodes, j).next \in 0..(j - 1)
               /\ NodeAt(nodes, NodeAt(nodes, j).next).type = "NT_FOR_NEXT"
               /\ NodeAt(nodes, NodeAt(nodes, j).next).next = j + 1

RenderEnded == pc \in {"done", "error"}

\* C32: every template of the cache has its If targets and the Jumps of
\* elseif and else strictly forward and the Jump of each for close back to
\* its own ForNext node, the only backward target; and every render that
\* has started eventually ends, with its output or with an error (the
\* expressions and iterators of the inputs all return, the iterators nil
\* after the last item).
C32_RenderTerminates ==
    /\ [](\A f \in DOMAIN templates : TargetsDirected(templates[f].nodes))
    /\ (pc = "running") ~> RenderEnded

\* a render of nested loops has ended after the Jump of a for close took it
\* back to its ForNext node, which was called three times or more
C32_Witness ==
    /\ Finished
    /\ Main \in DOMAIN templates
    /\ \E j \in 0..(Len(templates[Main].nodes) - 1) :
           /\ NodeAt(templates[Main].nodes, j).type = "NT_JUMP"
           /\ NodeAt(templates[Main].nodes, j).next < j
    /\ Len(calls) >= 3

\* ---------------------------------------------------------------------------
\* the values a for loop keeps on the stack

\* the ForNext nodes of the loops that are open at index i: the loop of the
\* ForNext node at m reaches from m to the Jump in front of its end target
OpenLoops(nodes, i) ==
    {m \in 0..(Len(nodes) - 1) :
        NodeAt(nodes, m).type = "NT_FOR_NEXT" /\ m <= i /\ i < NodeAt(nodes, m).next}

\* the values activation k keeps on the stack: the filename the include has
\* pushed, the template once it is found or compiled, and three values for
\* every loop open at its index
FrameHeight(k) ==
    (IF k > 1 THEN 1 ELSE 0)
        + (IF frames[k].i >= 0
           THEN 1 + 3 * Cardinality(OpenLoops(templates[frames[k].filename].nodes, frames[k].i))
           ELSE 0)

\* the height of the stack with activations 1..k: template.render was called
\* with four values on it
RECURSIVE HeightUpTo(_)
HeightUpTo(k) == IF k = 0 THEN 4 ELSE HeightUpTo(k - 1) + FrameHeight(k)

HeightMatches == pc = "running" => Len(L) = HeightUpTo(Len(frames))

\* the result the iterator on the stack returns first for the subject and the
\* control value on the stack
IteratorFirst ==
    (LuaApply(StackAt(L, -3), <<StackAt(L, -2), StackAt(L, -1)>>).vals \o <<Nil>>)[1]

\* a step leaves every value that stays on the stack as it is, but for the
\* control value on top that a ForNext node replaces
StepKeeps ==
    \A p \in 1..(IF Len(L') < Len(L) THEN Len(L') ELSE Len(L)) :
        \/ L'[p] = L[p]
        \/ AtNode("NT_FOR_NEXT") /\ p = Len(L) /\ Len(L') = Len(L)

\* ForInit pushes the three values of its expression
ForInitPushes ==
    AtNode("NT_FOR_INIT") =>
        /\ Len(L') = Len(L) + 3
        /\ SubSeq(L', Len(L) + 1, Len(L) + 3) = Adjust(template_eval(CurNode.ref).vals, 3)

\* ForNext goes on with the iterator and the subject in place and the first
\* result as the control value, or leaves the loop with the three values gone
ForNextKeeps ==
    (AtNode("NT_FOR_NEXT") /\ frames'[Len(frames')].i = Top.i + 1) =>
        /\ Len(L') = Len(L)
        /\ ~lua_isnil(IteratorFirst)
        /\ L' = [L EXCEPT ![Len(L)] = IteratorFirst]

ForNextDiscards ==
    (AtNode("NT_FOR_NEXT") /\ frames'[Len(frames')].i # Top.i + 1) =>
        /\ lua_isnil(IteratorFirst)
        /\ frames'[Len(frames')].i = CurNode.next
        /\ L' = Pop(L, 3)

\* C33: while a render runs, the stack holds three values for every open
\* loop of every activation and nothing else on top of the templates and
\* the filenames of the includes, so that the three values on top at a
\* ForNext node are those of its own loop and the height behind a loop is
\* the height in front of its ForInit; ForInit pushes the three values of
\* its expression, an iteration replaces the control value on top by the
\* first result of the iterator and leaves the height as it is, the end of
\* the loop pops exactly the three values, and no step changes a value
\* that stays on the stack otherwise
C33_LoopStackDiscipline ==
    /\ []HeightMatches
    /\ [][(pc = "running" /\ pc' = "running") =>
              (StepKeeps /\ ForInitPushes /\ ForNextKeeps /\ ForNextDiscards)]_vars

\* the outer loop of the two files is at its ForNext node for the second
\* item, after the loop of the if branch and the loop of the include have
\* run: the three values on top are the iterator, the list t and 1
C33_Witness ==
    /\ AtNode("NT_FOR_NEXT")
    /\ Len(frames) = 1
    /\ Incl \in DOMAIN templates
    /\ Len(CurNode.names) = 2
    /\ StackAt(L, -3) = Fn(FnId.iter)
    /\ StackAt(L, -2) = Tab(ItemsT(2), 1)
    /\ StackAt(L, -1) = Num(1)
    /\ Len(L) = 8
    /\ Cardinality({n \in 1..Len(calls) : calls[n].s = Tab(ItemsU(2), 2)}) >= 6

=============================================================================
